---- MODULE Spec2Model ----
(***************************************************************************)
(* The create-square-invoice edge function                                 *)
(* (supabase/functions/create-square-invoice/index.ts) with the tables and *)
(* functions of its migration, and the invoicing platform it calls.        *)
(*                                                                         *)
(* Every request is one invocation of the Deno.serve handler.  An          *)
(* invocation is a process whose position pc moves from one await of the   *)
(* handler to the next; everything between two awaits is one atomic        *)
(* action.  The invocations share the two tables (processed_orders,        *)
(* invoice_audit_log) and the platform.                                    *)
(*                                                                         *)
(* Strings the code inspects character by character (order number, email)  *)
(* are sequences of one-character strings.  A missing value is the empty   *)
(* sequence (ids, strings) or a record of kind "undefined".                *)
(***************************************************************************)
EXTENDS Integers, Sequences, FiniteSets, TLC

(***************************************************************************)
(* Bounds of the model.                                                    *)
(***************************************************************************)
\* number of invocations that can be in flight at the same time
NumSlots == 3
\* number of requests received in one behaviour
MaxRequests == 2
\* number of requests received in one behaviour of SpecSeq
MaxSeqRequests == 2
\* number of requests received in one behaviour of SpecRace
MaxRaceRequests == 3
MaxRetryRequests == 3

(***************************************************************************)
(* Program constants.                                                      *)
(***************************************************************************)
REPLAY_WINDOW_SECONDS == 120
MAX_AMOUNT_CENTS == 5000000
USER_RATE_LIMIT == 10
GLOBAL_RATE_LIMIT == 50
\* INTERVAL '1 hour' of the two count functions, in milliseconds
HourMs == 3600000
\* the lower edge of the replay window, "ageSeconds < -30"
FutureSkewSeconds == 30
\* retry_after of the two rate limit answers
RetryAfterUser == 3600
RetryAfterGlobal == 300

Slots == 1..NumSlots

(***************************************************************************)
(* Values.                                                                 *)
(***************************************************************************)
NoId == <<>>
NoCorr == 0
NoUser == "none"
NullTime == -1

OrderA == <<"7", "6", "0", "0">>
OrderB == <<"A", "-", "1">>
OrderBad == <<"7", "6", "#">>
JaneDoe == <<"J", "a", "n", "e", " ", "D", "o", "e">>
JaneEmail == <<"j", "@", "e", ".", "o">>
BadEmail == <<"j", "@", "e">>
JohnRoe == <<"J", "o", "h", "n", " ", "R", "o", "e">>
JohnEmail == <<"r", "@", "e", ".", "o">>

IntAmount(n) == [kind |-> "int", val |-> n]
FloatAmount(n) == [kind |-> "float", val |-> n]
NoAmount == [kind |-> "undefined", val |-> 0]

IsoTime(ms) == [kind |-> "iso", ms |-> ms]
GarbageTime == [kind |-> "garbage", ms |-> 0]
NoTime == [kind |-> "missing", ms |-> 0]

\* the rows of authorized_invoicers; u1 is an active invoicer, u2 an active
\* auditor, u3 an invoicer whose role was revoked
authorized_invoicers ==
    { [user_id |-> "u1", role |-> "invoicer", revoked_at |-> NullTime],
      [user_id |-> "u2", role |-> "auditor", revoked_at |-> NullTime],
      [user_id |-> "u3", role |-> "invoicer", revoked_at |-> 0],
      [user_id |-> "u4", role |-> "invoicer", revoked_at |-> NullTime] }
    \cup { [user_id |-> u, role |-> "invoicer", revoked_at |-> NullTime] :
              u \in {"b0", "b1", "b2", "b3", "b4"} }

Users == {"u1", "u2", "u3", "u4", "b0", "b1", "b2", "b3", "b4"}

VARIABLES
    page,       \* the content script on one order page: buttonState, the
                \* runs of handleSendToSquare, the overlays in the document
    schema,     \* the argument name by which the database's function
                \* is_authorized_invoicer is found
    wire,       \* the field of the platform's answer to /customers/search
                \* that holds the list of customers
    now,        \* the clock, Date.now() and NOW(), in milliseconds
    ledger,     \* table processed_orders: a sequence of rows, id = index
    audit,      \* table invoice_audit_log: the set of its rows
    square,     \* the invoicing platform: customers, orders, invoices, keys
    sqCalls,    \* the calls received by the platform: {[op, key, order]}
    req,        \* the invocations: slot -> locals of the handler, and pc
    started     \* number of requests received so far

vars == <<page, schema, wire, now, ledger, audit, square, sqCalls, req, started>>

(***************************************************************************)
(* Helper functions of the handler.                                        *)
(***************************************************************************)
\* generateCorrelationId: crypto.randomUUID(), a value no earlier request got
generateCorrelationId == started + 1

\* mutant: the status argument dropped, every response 200
jsonResponse_Always200(data, status, correlationId) ==
    [ status |-> 200,
      header_correlation_id |-> IF correlationId # NoCorr THEN correlationId ELSE NoCorr,
      body |-> data ]

\* jsonResponse: the header carries the correlation id when one is given
jsonResponse(data, status, correlationId) ==
    [ status |-> status,
      header_correlation_id |-> IF correlationId # NoCorr THEN correlationId ELSE NoCorr,
      body |-> data ]

NoData == [square_customer_id |-> NoId, square_order_id |-> NoId,
           square_invoice_id |-> NoId, invoice_number |-> NoId]

\* errorResponse: retry_after is put in the body when it is given (not 0)
errorResponse(code, message, status, correlationId, retryAfter) ==
    jsonResponse(
        [ success |-> FALSE, correlation_id |-> correlationId, code |-> code,
          message |-> message,
          retry_after |-> IF retryAfter # 0 THEN retryAfter ELSE 0,
          data |-> NoData ],
        status, correlationId)

\* mutant: the invoice number left out of the data
successBody_NoInvoiceNumber(correlationId, cust, ord, inv, num) ==
    [ success |-> TRUE, correlation_id |-> correlationId, code |-> "OK",
      message |-> "", retry_after |-> 0,
      data |-> [square_customer_id |-> cust, square_order_id |-> ord,
                square_invoice_id |-> inv, invoice_number |-> NoId] ]

\* the success body of the handler
successBody(correlationId, cust, ord, inv, num) ==
    [ success |-> TRUE, correlation_id |-> correlationId, code |-> "OK",
      message |-> "", retry_after |-> 0,
      data |-> [square_customer_id |-> cust, square_order_id |-> ord,
                square_invoice_id |-> inv, invoice_number |-> num] ]

\* new Response(null, {headers: CORS_HEADERS}): the preflight answer
preflightResponse ==
    [ status |-> 200, header_correlation_id |-> NoCorr,
      body |-> [ success |-> FALSE, correlation_id |-> NoCorr, code |-> "NONE",
                 message |-> "", retry_after |-> 0, data |-> NoData ] ]

\* the runtime's answer when the handler throws: 500 without a body of ours
uncaughtResponse ==
    [ status |-> 500, header_correlation_id |-> NoCorr,
      body |-> [ success |-> FALSE, correlation_id |-> NoCorr, code |-> "NONE",
                 message |-> "Internal Server Error", retry_after |-> 0,
                 data |-> NoData ] ]

NoResponse ==
    [ status |-> 0, header_correlation_id |-> NoCorr,
      body |-> [ success |-> FALSE, correlation_id |-> NoCorr, code |-> "NONE",
                 message |-> "", retry_after |-> 0, data |-> NoData ] ]

AlnumDash ==
    { "0", "1", "2", "3", "4", "5", "6", "7", "8", "9", "-",
      "A", "B", "C", "D", "E", "J", "a", "d", "e", "j", "n", "o" }

\* isValidOrderNumber: /^[A-Za-z0-9-]+$/ and 0 < length <= 50
isValidOrderNumber(orderNumber) ==
    /\ \A i \in 1..Len(orderNumber) : orderNumber[i] \in AlnumDash
    /\ Len(orderNumber) > 0
    /\ Len(orderNumber) <= 50

NotSpaceAt(c) == c \notin {" ", "@"}

\* isValidEmail: /^[^\s@]+@[^\s@]+\.[^\s@]+$/
isValidEmail(email) ==
    \E a \in 1..Len(email), d \in 1..Len(email) :
        /\ email[a] = "@"
        /\ email[d] = "."
        /\ 1 < a
        /\ a + 1 < d
        /\ d < Len(email)
        /\ \A i \in 1..Len(email) : i # a => NotSpaceAt(email[i])

\* `cust-${orderNumber}` and the three other keys
custKey(orderNumber) == <<"c", "u", "s", "t", "-">> \o orderNumber
\* mutant: a key that differs from one attempt to the next
ordKey_PerAttempt(orderNumber) ==
    <<"o", "r", "d", "-">> \o orderNumber \o <<"-", ToString(started)>>
ordKey(orderNumber) == <<"o", "r", "d", "-">> \o orderNumber
invKey(orderNumber) == <<"i", "n", "v", "-">> \o orderNumber
pubKey(orderNumber) == <<"p", "u", "b", "-">> \o orderNumber
\* `cultivera-${order_number}`
ledgerKey(orderNumber) == <<"c", "u", "l", "t", "i", "v", "e", "r", "a", "-">> \o orderNumber

(***************************************************************************)
(* Requests.                                                               *)
(***************************************************************************)
MkBody(o, n, e, a, t) ==
    [ kind |-> "object", order_number |-> o, customer_name |-> n,
      customer_email |-> e, amount_cents |-> a, request_timestamp |-> t ]

\* a body that is no JSON text, and the JSON text null
InvalidJsonBody == [MkBody(<<>>, <<>>, <<>>, NoAmount, NoTime) EXCEPT !.kind = "invalid_json"]
NullBody == [MkBody(<<>>, <<>>, <<>>, NoAmount, NoTime) EXCEPT !.kind = "null"]

MkInput(m, env, a, b) == [method |-> m, env_ok |-> env, auth |-> a, body |-> b]

NoInput == MkInput("NONE", TRUE, "none", NullBody)

NoRow ==
    [ id |-> 0, order_number |-> <<>>, user_id |-> NoUser, status |-> "none",
      square_customer_id |-> NoId, square_order_id |-> NoId,
      square_invoice_id |-> NoId, steps_completed |-> <<>>,
      amount_cents |-> 0, customer_name |-> <<>>, customer_email |-> <<>>,
      idempotency_key |-> <<>>, error_message |-> "", completed_at |-> NullTime ]

\* the data given to logAudit; the table adds the timestamp
MkEntry(corr, user, order, result, code) ==
    [ correlation_id |-> corr, timestamp |-> NullTime, user_id |-> user,
      cultivera_order_number |-> order, result |-> result, error_code |-> code ]

NoEntry == MkEntry(NoCorr, NoUser, <<>>, "NONE", "NONE")

\* the locals of one invocation.  gates, nCalls, nWrites, nAudit, firstTime,
\* afterCompleted and calls record what the invocation did and met; the
\* handler does not read them
IdleReq ==
    [ pc |-> "idle", correlationId |-> NoCorr, input |-> NoInput,
      user |-> NoUser, userRateCount |-> 0, globalRateCount |-> 0,
      existingOrder |-> NoRow, processedOrderId |-> 0,
      stepsCompleted |-> <<>>, squareCustomerId |-> NoId,
      squareOrderId |-> NoId, squareInvoiceId |-> NoId,
      invoiceNumber |-> NoId, version |-> 0, errorMessage |-> "",
      resp |-> NoResponse, entry |-> NoEntry,
      gates |-> <<>>, nCalls |-> 0, nWrites |-> 0, nAudit |-> 0,
      firstTime |-> FALSE, afterCompleted |-> FALSE, calls |-> <<>> ]

(***************************************************************************)
(* The tables and the functions of the migration.                          *)
(***************************************************************************)
\* is_authorized_invoicer
is_authorized_invoicer(check_user_id) ==
    \E row \in authorized_invoicers :
        /\ row.user_id = check_user_id
        /\ row.role = "invoicer"
        /\ row.revoked_at = NullTime

\* the argument name the migration declares for is_authorized_invoicer, and
\* the one the handler sends
DeclaredParameter == "check_user_id"
SentParameter == "p_user_id"

\* supabase.rpc('is_authorized_invoicer', { p_user_id }): the function is
\* looked up by its name and the names of the arguments sent; when the
\* database has no such function the call fails, data is null, and the
\* handler, which reads data only, takes it for "not authorized"
isAuthorized(user_id) ==
    IF schema = SentParameter THEN is_authorized_invoicer(user_id) ELSE FALSE

\* mutant: every audit entry counted
CountedResults_All ==
    { "SUCCESS", "FAILURE", "AUTH_MISSING", "UNAUTHORIZED", "VALIDATION_FAILED",
      "REPLAY_REJECTED", "RATE_LIMITED", "DUPLICATE_BLOCKED" }

CountedResults == {"SUCCESS", "FAILURE"}

\* get_user_rate_limit_count
get_user_rate_limit_count(check_user_id) ==
    Cardinality({ e \in audit :
        /\ e.user_id = check_user_id
        /\ e.timestamp > now - HourMs
        /\ e.result \in CountedResults })

\* get_global_rate_limit_count
get_global_rate_limit_count ==
    Cardinality({ e \in audit :
        /\ e.timestamp > now - HourMs
        /\ e.result \in CountedResults })

\* from('processed_orders').select('*').eq('order_number', o).single():
\* the row when exactly one row matches, no data otherwise
SelectOrder(orderNumber) ==
    LET hits == { i \in DOMAIN ledger : ledger[i].order_number = orderNumber }
    IN  IF Cardinality(hits) = 1 THEN ledger[CHOOSE i \in hits : TRUE] ELSE NoRow

\* mutant: the table without the constraint
UniqueViolation_NoConstraint(orderNumber) == FALSE

\* CONSTRAINT unique_order_number UNIQUE (order_number): the insert is
\* refused (code 23505) when a row with the order number exists
UniqueViolation(orderNumber) ==
    \E i \in DOMAIN ledger : ledger[i].order_number = orderNumber

\* the row of the handler's insert, with the defaults of the table
NewRow(id, orderNumber, user, amount, name, email) ==
    [ NoRow EXCEPT !.id = id, !.order_number = orderNumber, !.user_id = user,
                   !.status = "processing", !.amount_cents = amount,
                   !.customer_name = name, !.customer_email = email,
                   !.idempotency_key = ledgerKey(orderNumber) ]

\* update(...).eq('id', id): a key whose value is undefined is not sent
Keep(old, new) == IF new = NoId THEN old ELSE new

(***************************************************************************)
(* The invoicing platform.  A call that carries an idempotency key the     *)
(* platform has executed returns the result of that execution and changes  *)
(* nothing; the id of a created resource is derived from the key of the    *)
(* call that created it.                                                   *)
(***************************************************************************)
NoSquare == [customers |-> {}, orders |-> {}, invoices |-> {}, keys |-> {}]

SqCustomersByEmail(email) == { c \in square.customers : c.email_address = email }

\* The platform answers with the resource at the top of the JSON document
\* (customer, order, invoice; createCustomer, createOrder and createInvoice
\* read it there), the list of a search in customers; searchCustomerByEmail
\* reads data.customers.
AnswerField == "customers"
ReadField == "data.customers"

\* (result.data as { customers })?.customers of the search answer
customersOf(email) ==
    IF wire = ReadField THEN SqCustomersByEmail(email) ELSE {}

SqCreateCustomer(key, email) ==
    IF key \in square.keys THEN square
    ELSE [square EXCEPT !.keys = @ \cup {key},
                        !.customers = @ \cup {[id |-> key, email_address |-> email]}]

SqCreateOrder(key, orderNumber, customerId, amountCents) ==
    IF key \in square.keys THEN square
    ELSE [square EXCEPT !.keys = @ \cup {key},
                        !.orders = @ \cup {[id |-> key, reference_id |-> orderNumber,
                                            customer_id |-> customerId,
                                            amount |-> amountCents]}]

SqCreateInvoice(key, orderId, customerId) ==
    IF key \in square.keys THEN square
    ELSE [square EXCEPT !.keys = @ \cup {key},
                        !.invoices = @ \cup {[id |-> key, order_id |-> orderId,
                                              customer_id |-> customerId,
                                              version |-> 0, status |-> "DRAFT"]}]

SqInvoice(invoiceId) == { i \in square.invoices : i.id = invoiceId }

\* publish is refused when the invoice is unknown or the version is stale
SqPublishAccepted(key, invoiceId, version) ==
    \/ key \in square.keys
    \/ \E i \in SqInvoice(invoiceId) : i.version = version /\ i.status = "DRAFT"

SqPublish(key, invoiceId, version) ==
    IF key \in square.keys THEN square
    ELSE [square EXCEPT !.keys = @ \cup {key},
                        !.invoices = { IF i.id = invoiceId
                                         THEN [i EXCEPT !.version = @ + 1, !.status = "UNPAID"]
                                         ELSE i : i \in @ }]

SqCall(op, key, orderNumber) == [op |-> op, key |-> key, order |-> orderNumber]

(***************************************************************************)
(* The handler, Deno.serve(async (req) => ...).                            *)
(***************************************************************************)
\* "await logAudit(...); return response": the response is kept in resp and
\* the audit data in entry until logAudit has returned
Stage(rq, response, entry) ==
    [rq EXCEPT !.pc = "logAudit", !.resp = response, !.entry = entry]

\* the handler returns (or throws) without an audit call
Return(rq, response) == [rq EXCEPT !.pc = "done", !.resp = response]

Gate(rq, name) == [rq EXCEPT !.gates = Append(@, name)]

\* the message of the identity provider for a credential it refuses
AuthErrorMessage(token) ==
    IF token = "expired" THEN "token is expired" ELSE "invalid JWT"

\* mutant: the message compared, not searched
IncludesExpired_Exact(message) == message = "expired"

\* authError?.message?.includes('expired')
IncludesExpired(message) == message \in {"token is expired"}

\* The requests of Spec and SpecSeq give request_timestamp by its age at
\* arrival; the timestamp the body carries is the arrival time less the age.
Stamped(in) ==
    IF in.body.request_timestamp.kind = "iso"
      THEN [in EXCEPT !.body.request_timestamp.ms = now - @]
      ELSE in

\* A request arrives: preflight, correlation id, method, configuration and
\* the Authorization header; the handler runs to its first await.
Receive(r, in, max) ==
    /\ req[r].pc \in {"idle", "done"}
    /\ \A q \in 1..(r - 1) : req[q].pc \notin {"idle", "done"}
    /\ started < max
    /\ started' = started + 1
    /\ LET corr == generateCorrelationId
           rq0 == [IdleReq EXCEPT !.input = Stamped(in),
                      !.firstTime = ~UniqueViolation(in.body.order_number),
                      !.afterCompleted =
                          \E i \in DOMAIN ledger :
                              /\ ledger[i].order_number = in.body.order_number
                              /\ ledger[i].status = "completed"]
           rq == [rq0 EXCEPT !.correlationId = corr]
       IN  req' = [req EXCEPT ![r] =
             IF in.method = "OPTIONS" THEN Return(rq0, preflightResponse)
             ELSE IF in.method # "POST"
               THEN Return(rq, errorResponse("INTERNAL_ERROR", "Method not allowed",
                                             405, corr, 0))
             ELSE IF ~in.env_ok
               THEN Return(rq, errorResponse("INTERNAL_ERROR",
                                             "Server configuration error", 500, corr, 0))
             ELSE IF in.auth \in {"none", "basic"}
               THEN Stage(Gate(rq, "auth"),
                          errorResponse("AUTH_MISSING", "Authentication required",
                                        401, corr, 0),
                          MkEntry(corr, NoUser, <<>>, "AUTH_MISSING", "AUTH_MISSING"))
             ELSE [Gate(rq, "auth") EXCEPT !.pc = "getUser"]]
    /\ UNCHANGED <<page, schema, wire, now, ledger, audit, square, sqCalls>>

\* 1. Authentication: supabase.auth.getUser(jwt)
GetUser(r) ==
    /\ req[r].pc = "getUser"
    /\ LET rq == req[r]
           token == rq.input.auth
           code == IF IncludesExpired(AuthErrorMessage(token))
                     THEN "AUTH_EXPIRED" ELSE "AUTH_INVALID"
           message == IF code = "AUTH_EXPIRED"
                        THEN "Session expired. Please sign in again."
                        ELSE "Invalid authentication"
       IN  req' = [req EXCEPT ![r] =
             IF token \notin Users
               THEN Stage(rq, errorResponse(code, message, 401, rq.correlationId, 0),
                          MkEntry(rq.correlationId, NoUser, <<>>, "AUTH_MISSING", code))
               ELSE [rq EXCEPT !.pc = "authorize", !.user = token]]
    /\ UNCHANGED <<page, schema, wire, now, ledger, audit, square, sqCalls, started>>

\* 2. Authorization: rpc('is_authorized_invoicer')
Authorize(r) ==
    /\ req[r].pc = "authorize"
    /\ LET rq == Gate(req[r], "authz")
       IN  req' = [req EXCEPT ![r] =
             IF ~isAuthorized(rq.user)
               THEN Stage(rq,
                          errorResponse("UNAUTHORIZED",
                                        "Your account is not authorized to create invoices. Contact your admin for access.",
                                        403, rq.correlationId, 0),
                          MkEntry(rq.correlationId, rq.user, <<>>, "UNAUTHORIZED",
                                  "UNAUTHORIZED"))
               ELSE [rq EXCEPT !.pc = "parse"]]
    /\ UNCHANGED <<page, schema, wire, now, ledger, audit, square, sqCalls, started>>

\* the "Required fields" test of the validator
MissingField(b) ==
    \/ b.order_number = <<>>
    \/ b.customer_name = <<>>
    \/ b.customer_email = <<>>
    \/ b.amount_cents.kind = "undefined"
    \/ b.request_timestamp.kind = "missing"

\* mutant: the ceiling itself refused
AmountOk_Exclusive(a) == a.kind = "int" /\ a.val > 0 /\ a.val < MAX_AMOUNT_CENTS

\* Number.isInteger(amount_cents) && amount_cents > 0 && amount_cents <= MAX
AmountOk(a) == a.kind = "int" /\ a.val > 0 /\ a.val <= MAX_AMOUNT_CENTS

\* the code of the first validation rule the body breaks, "OK" when none
ValidationCode(b) ==
    IF MissingField(b) THEN "VALIDATION_MISSING_FIELD"
    ELSE IF ~isValidOrderNumber(b.order_number) THEN "VALIDATION_INVALID_ORDER"
    ELSE IF ~isValidEmail(b.customer_email) THEN "VALIDATION_INVALID_EMAIL"
    ELSE IF ~AmountOk(b.amount_cents) THEN "VALIDATION_INVALID_AMOUNT"
    ELSE "OK"

\* mutant: the first missing field only
missingFields_First(b) ==
    IF b.order_number = <<>> THEN <<"order_number">>
    ELSE IF b.customer_name = <<>> THEN <<"customer_name">>
    ELSE IF b.customer_email = <<>> THEN <<"customer_email">>
    ELSE IF b.amount_cents.kind = "undefined" THEN <<"amount_cents">>
    ELSE IF b.request_timestamp.kind = "missing" THEN <<"request_timestamp">>
    ELSE <<>>

\* const missingFields = []; the five pushes
missingFields(b) ==
    (IF b.order_number = <<>> THEN <<"order_number">> ELSE <<>>) \o
    (IF b.customer_name = <<>> THEN <<"customer_name">> ELSE <<>>) \o
    (IF b.customer_email = <<>> THEN <<"customer_email">> ELSE <<>>) \o
    (IF b.amount_cents.kind = "undefined" THEN <<"amount_cents">> ELSE <<>>) \o
    (IF b.request_timestamp.kind = "missing" THEN <<"request_timestamp">> ELSE <<>>)

\* Array.prototype.join(', ')
RECURSIVE join(_)
join(names) ==
    IF names = <<>> THEN ""
    ELSE IF Len(names) = 1 THEN names[1]
    ELSE names[1] \o ", " \o join(Tail(names))

\* `Missing required fields: ${missingFields.join(', ')}`
MissingMessage(b) == "Missing required fields: " \o join(missingFields(b))

ValidationMessage(code) ==
    CASE code = "VALIDATION_INVALID_ORDER" -> "Invalid order number format"
      [] code = "VALIDATION_INVALID_EMAIL" -> "Invalid customer email format"
      [] OTHER -> "Amount appears invalid (must be positive and not exceed $50,000)"

\* mutant: the upper edge of the window refused
ReplayRejected_Strict(ts, t) ==
    \/ ts.kind # "iso"
    \/ t - ts.ms >= REPLAY_WINDOW_SECONDS * 1000
    \/ t - ts.ms < -(FutureSkewSeconds * 1000)

\* 5. Replay Protection: isNaN(requestTime) || age > 120 s || age < -30 s,
\* with age = (now - requestTime) / 1000
ReplayRejected(ts, t) ==
    \/ ts.kind # "iso"
    \/ t - ts.ms > REPLAY_WINDOW_SECONDS * 1000
    \/ t - ts.ms < -(FutureSkewSeconds * 1000)

\* mutant: the replay guard before the validator
BodyVerdict_ReplayFirst(b, t) ==
    IF ~MissingField(b) /\ ReplayRejected(b.request_timestamp, t) THEN "REPLAY_REJECTED"
    ELSE ValidationCode(b)

\* 4. and 5. in the order of the handler: the validator, then the replay
\* guard; the code of the first one that rejects the body, "OK" when none
BodyVerdict(b, t) ==
    IF ValidationCode(b) # "OK" THEN ValidationCode(b)
    ELSE IF ReplayRejected(b.request_timestamp, t) THEN "REPLAY_REJECTED"
    ELSE "OK"

\* 3.-5. req.json(), validation and replay protection: one await
ParseBody(r) ==
    /\ req[r].pc = "parse"
    /\ LET rq == Gate(req[r], "validator")
           b == rq.input.body
           corr == rq.correlationId
           code == BodyVerdict(b, now)
       IN  req' = [req EXCEPT ![r] =
             IF b.kind = "invalid_json"
               THEN Stage(rq,
                          errorResponse("VALIDATION_MISSING_FIELD", "Invalid request body",
                                        400, corr, 0),
                          MkEntry(corr, rq.user, <<>>, "VALIDATION_FAILED",
                                  "VALIDATION_MISSING_FIELD"))
             ELSE IF b.kind = "null"
               \* destructuring null throws; nothing catches it
               THEN Return(rq, uncaughtResponse)
             ELSE IF code \notin {"OK", "REPLAY_REJECTED"}
               THEN Stage(rq,
                          errorResponse(code,
                                        IF code = "VALIDATION_MISSING_FIELD"
                                          THEN MissingMessage(b)
                                          ELSE ValidationMessage(code),
                                        400, corr, 0),
                          MkEntry(corr, rq.user, b.order_number, "VALIDATION_FAILED", code))
             ELSE IF code = "REPLAY_REJECTED"
               THEN Stage(Gate(rq, "replay"),
                          errorResponse("REPLAY_REJECTED",
                                        "Request expired. Please try again.", 400, corr, 0),
                          MkEntry(corr, rq.user, b.order_number, "REPLAY_REJECTED",
                                  "REPLAY_REJECTED"))
             ELSE [Gate(rq, "replay") EXCEPT !.pc = "rateUser"]]
    /\ UNCHANGED <<page, schema, wire, now, ledger, audit, square, sqCalls, started>>

\* mutant: the caller's limit gives way to the global limit
UserLimitReached_GlobalFirst(count) ==
    count >= USER_RATE_LIMIT /\ get_global_rate_limit_count < GLOBAL_RATE_LIMIT

\* mutant: the comparison off by one
UserLimitReached_OffByOne(count) == count > USER_RATE_LIMIT

\* userRateCount >= USER_RATE_LIMIT
UserLimitReached(count) == count >= USER_RATE_LIMIT

\* globalRateCount >= GLOBAL_RATE_LIMIT
GlobalLimitReached(count) == count >= GLOBAL_RATE_LIMIT

\* 6. Rate Limiting, per caller
RateUser(r) ==
    /\ req[r].pc = "rateUser"
    /\ LET count == get_user_rate_limit_count(req[r].user)
           rq == [Gate(req[r], "rate") EXCEPT !.userRateCount = count]
           corr == rq.correlationId
       IN  req' = [req EXCEPT ![r] =
             IF UserLimitReached(count)
               THEN Stage(rq,
                          errorResponse("RATE_LIMITED_USER",
                                        "Too many requests. Please wait before trying again.",
                                        429, corr, RetryAfterUser),
                          MkEntry(corr, rq.user, rq.input.body.order_number,
                                  "RATE_LIMITED", "RATE_LIMITED_USER"))
               ELSE [rq EXCEPT !.pc = "rateGlobal"]]
    /\ UNCHANGED <<page, schema, wire, now, ledger, audit, square, sqCalls, started>>

\* 6. Rate Limiting, global
RateGlobal(r) ==
    /\ req[r].pc = "rateGlobal"
    /\ LET count == get_global_rate_limit_count
           rq == [req[r] EXCEPT !.globalRateCount = count]
           corr == rq.correlationId
       IN  req' = [req EXCEPT ![r] =
             IF GlobalLimitReached(count)
               THEN Stage(rq,
                          errorResponse("RATE_LIMITED_GLOBAL",
                                        "System is busy. Please wait a few minutes before trying again.",
                                        429, corr, RetryAfterGlobal),
                          MkEntry(corr, rq.user, rq.input.body.order_number,
                                  "RATE_LIMITED", "RATE_LIMITED_GLOBAL"))
               ELSE [rq EXCEPT !.pc = "lookup"]]
    /\ UNCHANGED <<page, schema, wire, now, ledger, audit, square, sqCalls, started>>

\* the data of a count query that failed: null
NullCount == -1

\* mutant: a request without a count is refused
NullReaches_Closed(limit) == TRUE

\* null >= limit: the comparison converts null to +0
NullReaches(limit) == 0 >= limit

\* 6. Rate Limiting, per caller, when the rpc answers with an error: only
\* data is read from the answer and it is null
RateUserFails(r) ==
    /\ req[r].pc = "rateUser"
    /\ LET rq == [Gate(req[r], "rate") EXCEPT !.userRateCount = NullCount]
           corr == rq.correlationId
       IN  req' = [req EXCEPT ![r] =
             IF NullReaches(USER_RATE_LIMIT)
               THEN Stage(rq,
                          errorResponse("RATE_LIMITED_USER",
                                        "Too many requests. Please wait before trying again.",
                                        429, corr, RetryAfterUser),
                          MkEntry(corr, rq.user, rq.input.body.order_number,
                                  "RATE_LIMITED", "RATE_LIMITED_USER"))
               ELSE [rq EXCEPT !.pc = "rateGlobal"]]
    /\ UNCHANGED <<page, schema, wire, now, ledger, audit, square, sqCalls, started>>

\* 6. Rate Limiting, global, when the rpc answers with an error
RateGlobalFails(r) ==
    /\ req[r].pc = "rateGlobal"
    /\ LET rq == [req[r] EXCEPT !.globalRateCount = NullCount]
           corr == rq.correlationId
       IN  req' = [req EXCEPT ![r] =
             IF NullReaches(GLOBAL_RATE_LIMIT)
               THEN Stage(rq,
                          errorResponse("RATE_LIMITED_GLOBAL",
                                        "System is busy. Please wait a few minutes before trying again.",
                                        429, corr, RetryAfterGlobal),
                          MkEntry(corr, rq.user, rq.input.body.order_number,
                                  "RATE_LIMITED", "RATE_LIMITED_GLOBAL"))
               ELSE [rq EXCEPT !.pc = "lookup"]]
    /\ UNCHANGED <<page, schema, wire, now, ledger, audit, square, sqCalls, started>>

\* mutant: every record of the order number taken for a duplicate
IsCompletedDuplicate_AnyRecord(existingOrder) == existingOrder # NoRow

\* mutant: the status compared with a value the table never holds
IsCompletedDuplicate_Typo(existingOrder) ==
    existingOrder # NoRow /\ existingOrder.status = "complete"

\* existingOrder && existingOrder.status === 'completed'
IsCompletedDuplicate(existingOrder) ==
    existingOrder # NoRow /\ existingOrder.status = "completed"

\* mutant: the lookup done as an update that returns the row
LedgerAfterLookup_Update(orderNumber) ==
    [ i \in DOMAIN ledger |->
        IF ledger[i].order_number = orderNumber
          THEN [ledger[i] EXCEPT !.status = "processing"]
          ELSE ledger[i] ]

\* the select of the duplicate check reads; the table is as it was
LedgerAfterLookup(orderNumber) == ledger

\* 7. Duplicate Check: select the record of the order number
Lookup(r) ==
    /\ req[r].pc = "lookup"
    /\ LET existingOrder == SelectOrder(req[r].input.body.order_number)
           rq == [Gate(req[r], "ledger") EXCEPT !.existingOrder = existingOrder]
           corr == rq.correlationId
       IN  req' = [req EXCEPT ![r] =
             IF IsCompletedDuplicate(existingOrder)
               THEN Stage(rq,
                          errorResponse("DUPLICATE_ORDER",
                                        "Invoice already sent for order. View in Square Dashboard.",
                                        409, corr, 0),
                          MkEntry(corr, rq.user, rq.input.body.order_number,
                                  "DUPLICATE_BLOCKED", "DUPLICATE_ORDER"))
             ELSE IF existingOrder # NoRow
               THEN [rq EXCEPT !.pc = "reset", !.processedOrderId = existingOrder.id]
             ELSE [rq EXCEPT !.pc = "insert"]]
    /\ ledger' = LedgerAfterLookup(req[r].input.body.order_number)
    /\ UNCHANGED <<page, schema, wire, now, audit, square, sqCalls, started>>

\* 8. the record exists: update({status: 'processing'}).eq('id', id)
\* mutant: the record takes the customer and the amount of the retry
ProcessingUpdate_Snapshot(row, rq) ==
    [row EXCEPT !.status = "processing",
                !.customer_name = rq.input.body.customer_name,
                !.customer_email = rq.input.body.customer_email,
                !.amount_cents = rq.input.body.amount_cents.val]

\* mutant: the reset clears the error of the earlier attempt
ProcessingUpdate_ClearError(row, rq) ==
    [row EXCEPT !.status = "processing", !.error_message = NoRow.error_message]

\* update({ status: 'processing', updated_at })
ProcessingUpdate(row, rq) == [row EXCEPT !.status = "processing"]

ResetProcessing(r) ==
    /\ req[r].pc = "reset"
    /\ ledger' = [ledger EXCEPT ![req[r].processedOrderId] = ProcessingUpdate(@, req[r])]
    /\ req' = [req EXCEPT ![r].pc = "search", ![r].nWrites = @ + 1]
    /\ UNCHANGED <<page, schema, wire, now, audit, square, sqCalls, started>>

\* 8. no record: insert one.  The insert is refused with 23505 when the
\* order number is taken, and it can fail for another reason.
ConflictResponse_Rethrown(corr) == uncaughtResponse

\* the answer to insertError.code === '23505'
ConflictResponse(corr) ==
    errorResponse("DUPLICATE_ORDER",
                  "This order is already being processed. Please wait a moment.",
                  409, corr, 0)

InsertOrder(r) ==
    /\ req[r].pc = "insert"
    /\ LET rq == [req[r] EXCEPT !.nWrites = @ + 1]
           b == rq.input.body
           corr == rq.correlationId
           id == Len(ledger) + 1
       IN  IF UniqueViolation(b.order_number)
             THEN /\ req' = [req EXCEPT ![r] =
                       Stage(rq, ConflictResponse(corr),
                             MkEntry(corr, rq.user, b.order_number,
                                     "DUPLICATE_BLOCKED", "DUPLICATE_ORDER"))]
                  /\ UNCHANGED ledger
             ELSE \E insertError \in BOOLEAN :
                    IF insertError
                      \* throw insertError; nothing catches it
                      THEN /\ req' = [req EXCEPT ![r] = Return(rq, uncaughtResponse)]
                           /\ UNCHANGED ledger
                      ELSE /\ ledger' = Append(ledger,
                                   NewRow(id, b.order_number, rq.user, b.amount_cents.val,
                                          b.customer_name, b.customer_email))
                           /\ req' = [req EXCEPT ![r] =
                                [rq EXCEPT !.pc = "search", !.processedOrderId = id]]
    /\ UNCHANGED <<page, schema, wire, now, audit, square, sqCalls, started>>

(***************************************************************************)
(* 9. Square API Orchestration.  Every call of the platform can fail; a    *)
(* failed call changes nothing on the platform and throws into the catch   *)
(* block of the handler.                                                   *)
(***************************************************************************)
\* squareRequest of the invocation: the operation, and the version the
\* request carries (0 when it has none), in the order of the requests
Issue(rq, op, version) ==
    [rq EXCEPT !.calls = Append(@, [op |-> op, version |-> version])]

Called(rq) == [rq EXCEPT !.nCalls = @ + 1]

\* mutant: the detail of the error lost
\* the order-creation call, with the amount of its base_price_money
IssueOrder(rq, amountCents) ==
    [rq EXCEPT !.calls = Append(@, [op |-> "orders.create", version |-> 0,
                                    amount |-> amountCents])]

Throw_NoDetail(rq, message) ==
    [Called(rq) EXCEPT !.pc = "markFailed", !.errorMessage = "Unknown error"]

\* mutant: the error swallowed, the invocation stays where it is
Throw_Swallowed(rq, message) == Called(rq)

Throw(rq, message) == [Called(rq) EXCEPT !.pc = "markFailed", !.errorMessage = message]

\* mutant: the list replaced by the name of the last step
Push_Replace(rq, step) == [rq EXCEPT !.stepsCompleted = <<step>>]

Push(rq, step) == [rq EXCEPT !.stepsCompleted = Append(@, step)]

\* Step 1: searchCustomerByEmail; customers[0] of the answer
SearchCustomer(r) ==
    /\ req[r].pc = "search"
    /\ LET rq == Issue(Gate(req[r], "saga"), "customers.search", 0)
           b == rq.input.body
           found == customersOf(b.customer_email)
       IN  \E ok \in BOOLEAN :
             IF ~ok
               THEN req' = [req EXCEPT ![r] = Throw(rq, "Customer search failed")]
             ELSE IF found = {}
               THEN req' = [req EXCEPT ![r] =
                       [Push(Called(rq), "customer_search") EXCEPT !.pc = "createCustomer"]]
             ELSE \E c \in found :
                    req' = [req EXCEPT ![r] =
                       [Push(Push(Called(rq), "customer_search"), "customer_found")
                          EXCEPT !.pc = "updateCustomer", !.squareCustomerId = c.id]]
    /\ sqCalls' = sqCalls \cup
          {SqCall("customers.search", NoId, req[r].input.body.order_number)}
    /\ UNCHANGED <<page, schema, wire, now, ledger, audit, square, started>>

\* Step 2: createCustomer, key cust-{order_number}
CreateCustomer(r) ==
    /\ req[r].pc = "createCustomer"
    /\ LET rq == Issue(req[r], "customers.create", 0)
           b == rq.input.body
           key == custKey(b.order_number)
       IN  /\ \E ok \in BOOLEAN :
                IF ~ok
                  THEN /\ req' = [req EXCEPT ![r] = Throw(rq, "Customer creation failed")]
                       /\ UNCHANGED square
                  ELSE /\ square' = SqCreateCustomer(key, b.customer_email)
                       /\ req' = [req EXCEPT ![r] =
                            [Push(Called(rq), "customer_created")
                               EXCEPT !.pc = "updateCustomer", !.squareCustomerId = key]]
           /\ sqCalls' = sqCalls \cup {SqCall("customers.create", key, b.order_number)}
    /\ UNCHANGED <<page, schema, wire, now, ledger, audit, started>>

\* update({square_customer_id, steps_completed}).eq('id', id)
UpdateCustomer(r) ==
    /\ req[r].pc = "updateCustomer"
    /\ ledger' = [ledger EXCEPT ![req[r].processedOrderId] =
          [@ EXCEPT !.square_customer_id = Keep(@, req[r].squareCustomerId),
                    !.steps_completed = req[r].stepsCompleted]]
    /\ req' = [req EXCEPT ![r].pc = "createOrder", ![r].nWrites = @ + 1]
    /\ UNCHANGED <<page, schema, wire, now, audit, square, sqCalls, started>>

\* Step 3: createOrder, key ord-{order_number}
CreateOrder(r) ==
    /\ req[r].pc = "createOrder"
    /\ LET rq == IssueOrder(req[r], req[r].input.body.amount_cents.val)
           b == rq.input.body
           key == ordKey(b.order_number)
       IN  /\ \E ok \in BOOLEAN :
                IF ~ok
                  THEN /\ req' = [req EXCEPT ![r] = Throw(rq, "Order creation failed")]
                       /\ UNCHANGED square
                  ELSE /\ square' = SqCreateOrder(key, b.order_number, rq.squareCustomerId,
                                                  b.amount_cents.val)
                       /\ req' = [req EXCEPT ![r] =
                            [Push(Called(rq), "order_created")
                               EXCEPT !.pc = "updateOrder", !.squareOrderId = key]]
           /\ sqCalls' = sqCalls \cup {SqCall("orders.create", key, b.order_number)}
    /\ UNCHANGED <<page, schema, wire, now, ledger, audit, started>>

\* update({square_order_id, steps_completed}).eq('id', id)
UpdateOrder(r) ==
    /\ req[r].pc = "updateOrder"
    /\ ledger' = [ledger EXCEPT ![req[r].processedOrderId] =
          [@ EXCEPT !.square_order_id = Keep(@, req[r].squareOrderId),
                    !.steps_completed = req[r].stepsCompleted]]
    /\ req' = [req EXCEPT ![r].pc = "createInvoice", ![r].nWrites = @ + 1]
    /\ UNCHANGED <<page, schema, wire, now, audit, square, sqCalls, started>>

\* Step 4: createInvoice, key inv-{order_number}
CreateInvoice(r) ==
    /\ req[r].pc = "createInvoice"
    /\ LET rq == Issue(req[r], "invoices.create", 0)
           b == rq.input.body
           key == invKey(b.order_number)
       IN  /\ \E ok \in BOOLEAN :
                IF ~ok
                  THEN /\ req' = [req EXCEPT ![r] = Throw(rq, "Invoice creation failed")]
                       /\ UNCHANGED square
                  ELSE /\ square' = SqCreateInvoice(key, rq.squareOrderId, rq.squareCustomerId)
                       /\ req' = [req EXCEPT ![r] =
                            [Push(Called(rq), "invoice_created")
                               EXCEPT !.pc = "updateInvoice", !.squareInvoiceId = key,
                                      !.invoiceNumber = <<"#">> \o key]]
           /\ sqCalls' = sqCalls \cup {SqCall("invoices.create", key, b.order_number)}
    /\ UNCHANGED <<page, schema, wire, now, ledger, audit, started>>

\* update({square_invoice_id, steps_completed}).eq('id', id)
UpdateInvoice(r) ==
    /\ req[r].pc = "updateInvoice"
    /\ ledger' = [ledger EXCEPT ![req[r].processedOrderId] =
          [@ EXCEPT !.square_invoice_id = Keep(@, req[r].squareInvoiceId),
                    !.steps_completed = req[r].stepsCompleted]]
    /\ req' = [req EXCEPT ![r].pc = "getInvoice", ![r].nWrites = @ + 1]
    /\ UNCHANGED <<page, schema, wire, now, audit, square, sqCalls, started>>

\* Step 5, first half: publishInvoice fetches the invoice for its version
GetInvoice(r) ==
    /\ req[r].pc = "getInvoice"
    /\ LET rq == Issue(req[r], "invoices.get", 0)
       IN  \E ok \in BOOLEAN :
             IF ~ok \/ SqInvoice(rq.squareInvoiceId) = {}
               THEN req' = [req EXCEPT ![r] = Throw(rq, "Failed to get invoice")]
               ELSE \E i \in SqInvoice(rq.squareInvoiceId) :
                      req' = [req EXCEPT ![r] =
                         [Called(rq) EXCEPT !.pc = "publish", !.version = i.version]]
    /\ sqCalls' = sqCalls \cup
          {SqCall("invoices.get", NoId, req[r].input.body.order_number)}
    /\ UNCHANGED <<page, schema, wire, now, ledger, audit, square, started>>

\* Step 5, second half: the publish call, key pub-{order_number}
Publish(r) ==
    /\ req[r].pc = "publish"
    /\ LET rq == Issue(req[r], "invoices.publish", req[r].version)
           b == rq.input.body
           key == pubKey(b.order_number)
       IN  /\ \E ok \in BOOLEAN :
                IF ~ok \/ ~SqPublishAccepted(key, rq.squareInvoiceId, rq.version)
                  THEN /\ req' = [req EXCEPT ![r] = Throw(rq, "Invoice publish failed")]
                       /\ UNCHANGED square
                  ELSE /\ square' = SqPublish(key, rq.squareInvoiceId, rq.version)
                       /\ req' = [req EXCEPT ![r] =
                            [Push(Called(rq), "invoice_published")
                               EXCEPT !.pc = "markCompleted"]]
           /\ sqCalls' = sqCalls \cup {SqCall("invoices.publish", key, b.order_number)}
    /\ UNCHANGED <<page, schema, wire, now, ledger, audit, started>>

Includes(steps, step) == \E i \in 1..Len(steps) : steps[i] = step

\* the success audit data and response of the handler
SuccessEntry(rq) ==
    MkEntry(rq.correlationId, rq.user, rq.input.body.order_number, "SUCCESS", "NONE")

\* Mark as completed, then "Log success" and the 200 answer
MarkCompleted(r) ==
    /\ req[r].pc = "markCompleted"
    /\ ledger' = [ledger EXCEPT ![req[r].processedOrderId] =
          [@ EXCEPT !.status = "completed",
                    !.steps_completed = req[r].stepsCompleted,
                    !.completed_at = now]]
    /\ LET rq == [req[r] EXCEPT !.nWrites = @ + 1]
       IN  req' = [req EXCEPT ![r] =
             Stage(rq,
                   jsonResponse(successBody(rq.correlationId, rq.squareCustomerId,
                                            rq.squareOrderId, rq.squareInvoiceId,
                                            rq.invoiceNumber),
                                200, rq.correlationId),
                   SuccessEntry(rq))]
    /\ UNCHANGED <<page, schema, wire, now, audit, square, sqCalls, started>>

\* mutant: the tests in the opposite order
ErrorCodeOf_Reversed(stepsCompleted) ==
    IF ~Includes(stepsCompleted, "invoice_published") THEN "SQUARE_PUBLISH_ERROR"
    ELSE IF ~Includes(stepsCompleted, "invoice_created") THEN "SQUARE_INVOICE_ERROR"
    ELSE IF ~Includes(stepsCompleted, "order_created") THEN "SQUARE_ORDER_ERROR"
    ELSE IF Len(stepsCompleted) = 0 THEN "SQUARE_CUSTOMER_ERROR"
    ELSE "SQUARE_API_ERROR"

\* catch: "Determine error type based on last step"
ErrorCodeOf(stepsCompleted) ==
    IF Len(stepsCompleted) = 0 THEN "SQUARE_CUSTOMER_ERROR"
    ELSE IF ~Includes(stepsCompleted, "order_created") THEN "SQUARE_ORDER_ERROR"
    ELSE IF ~Includes(stepsCompleted, "invoice_created") THEN "SQUARE_INVOICE_ERROR"
    ELSE IF ~Includes(stepsCompleted, "invoice_published") THEN "SQUARE_PUBLISH_ERROR"
    ELSE "SQUARE_API_ERROR"

\* mutant: the failure stored without the progress of the attempt
FailureUpdate_StatusOnly(row, rq) ==
    [row EXCEPT !.status = "failed", !.error_message = rq.errorMessage]

\* mutant: the failure stored without the status
FailureUpdate_KeepStatus(row, rq) ==
    [row EXCEPT !.steps_completed = rq.stepsCompleted,
                !.error_message = rq.errorMessage]

\* catch: update({status: 'failed', steps_completed, error_message, ids})
FailureUpdate(row, rq) ==
    [row EXCEPT !.status = "failed",
                !.steps_completed = rq.stepsCompleted,
                !.error_message = rq.errorMessage,
                !.square_customer_id = Keep(@, rq.squareCustomerId),
                !.square_order_id = Keep(@, rq.squareOrderId),
                !.square_invoice_id = Keep(@, rq.squareInvoiceId)]

\* catch: update the record with the failure, then "Log failure" and 500
MarkFailed(r) ==
    /\ req[r].pc = "markFailed"
    /\ ledger' = [ledger EXCEPT ![req[r].processedOrderId] = FailureUpdate(@, req[r])]
    /\ LET rq == [req[r] EXCEPT !.nWrites = @ + 1]
           errorCode == ErrorCodeOf(rq.stepsCompleted)
       IN  req' = [req EXCEPT ![r] =
             Stage(rq,
                   errorResponse(errorCode,
                                 "Invoice creation did not complete. Click 'Try Again' to retry safely.",
                                 500, rq.correlationId, 0),
                   MkEntry(rq.correlationId, rq.user, rq.input.body.order_number,
                           "FAILURE", errorCode))]
    /\ UNCHANGED <<page, schema, wire, now, audit, square, sqCalls, started>>

\* logAudit: insert into invoice_audit_log (timestamp DEFAULT NOW()); the
\* handler returns the response when logAudit has returned
LogAudit(r) ==
    /\ req[r].pc = "logAudit"
    /\ audit' = audit \cup {[req[r].entry EXCEPT !.timestamp = now]}
    /\ req' = [req EXCEPT ![r].pc = "done", ![r].nAudit = @ + 1]
    /\ UNCHANGED <<page, schema, wire, now, ledger, square, sqCalls, started>>

LogAuditFails_Throws(r) ==
    /\ req[r].pc = "logAudit"
    /\ req' = [req EXCEPT ![r] = Return(req[r], uncaughtResponse)]
    /\ UNCHANGED <<page, schema, wire, now, ledger, audit, square, sqCalls, started>>

\* logAudit when the insert into invoice_audit_log fails: the error is
\* returned by the client and not read, or thrown and caught and written to
\* the console; nothing is stored and the caller goes on
LogAuditFails(r) ==
    /\ req[r].pc = "logAudit"
    /\ req' = [req EXCEPT ![r].pc = "done"]
    /\ UNCHANGED <<page, schema, wire, now, ledger, audit, square, sqCalls, started>>

\* one step of the invocation in slot r
Step(r) ==
    \/ GetUser(r)
    \/ Authorize(r)
    \/ ParseBody(r)
    \/ RateUser(r)
    \/ RateGlobal(r)
    \/ Lookup(r)
    \/ ResetProcessing(r)
    \/ InsertOrder(r)
    \/ SearchCustomer(r)
    \/ CreateCustomer(r)
    \/ UpdateCustomer(r)
    \/ CreateOrder(r)
    \/ UpdateOrder(r)
    \/ CreateInvoice(r)
    \/ UpdateInvoice(r)
    \/ GetInvoice(r)
    \/ Publish(r)
    \/ MarkCompleted(r)
    \/ MarkFailed(r)
    \/ LogAudit(r)

(***************************************************************************)
(* The content script (button, modals, handleSendToSquare) on one order    *)
(* page.  Every await of handleSendToSquare is one step; a click and the   *)
(* continuation it resolves are one step.                                  *)
(***************************************************************************)
MaxClicks == 3

Flows == 1..MaxClicks

\* a run of handleSendToSquare: where it waits, and the result of its
\* createInvoice
NoFlow == [pc |-> "none", success |-> FALSE]

\* let buttonState = 'ready'; no run, no overlay in the document
NoPage ==
    [ buttonState |-> "ready", flow |-> [f \in Flows |-> NoFlow], overlays |-> <<>> ]

\* the click listener returns at once (and the button is disabled) in the
\* states loading, success and already-sent
Refuses(state) == state \in {"loading", "success", "already-sent"}

updateButtonState(p, state) == [p EXCEPT !.buttonState = state]

\* showModal: the overlay is appended to the body with a click listener
\* that resolves the promise of the run that shows it
showModal(p, f, type) ==
    [p EXCEPT !.overlays = Append(@, [owner |-> f, type |-> type, listening |-> TRUE])]

\* closeModal: document.getElementById(MODAL_OVERLAY_ID) is the first
\* overlay of the document; it is removed
closeModal(overlays) == IF overlays = <<>> THEN <<>> ELSE Tail(overlays)

\* the overlays without the k-th
RemoveAt(overlays, k) ==
    [ j \in 1..(Len(overlays) - 1) |-> IF j < k THEN overlays[j] ELSE overlays[j + 1] ]

\* the data-action values a modal of a type offers; a click on the overlay
\* itself counts as close
ActionsOf(type) ==
    IF type = "confirmation" THEN {"confirm", "cancel", "close"} ELSE {"close"}

\* the runs whose createInvoice request is in flight
InFlight == { f \in Flows : page.flow[f].pc = "send" }

\* the runs that have started and not finished
Running == { f \in Flows : page.flow[f].pc \notin {"none", "refused", "end"} }

\* button.addEventListener('click', ...): the f-th click on the button
Click(f) ==
    /\ page.flow[f].pc = "none"
    /\ \A g \in 1..(f - 1) : page.flow[g].pc # "none"
    /\ page' = [page EXCEPT !.flow[f].pc =
                  IF Refuses(page.buttonState) THEN "refused" ELSE "auth"]
    /\ UNCHANGED <<schema, wire, now, ledger, audit, square, sqCalls, req, started>>

\* isAuthenticated() returns; the order data are scraped, validated, parsed
AuthReturns(f) ==
    /\ page.flow[f].pc = "auth"
    /\ \E authenticated \in BOOLEAN, scraped \in {"valid", "invalid"} :
          page' =
            IF ~authenticated
              THEN [showModal(page, 0, "signin") EXCEPT !.flow[f].pc = "end"]
            ELSE IF scraped = "invalid"
              THEN [showModal(page, f, "error") EXCEPT !.flow[f].pc = "invalid"]
            ELSE [page EXCEPT !.flow[f].pc = "status"]
    /\ UNCHANGED <<schema, wire, now, ledger, audit, square, sqCalls, req, started>>

\* checkOrderStatus() returns; the duplicate or the confirmation modal
StatusReturns(f) ==
    /\ page.flow[f].pc = "status"
    /\ \E completed \in BOOLEAN :
          page' =
            IF completed
              THEN [showModal(page, f, "error") EXCEPT !.flow[f].pc = "duplicate"]
              ELSE [showModal(page, f, "confirmation") EXCEPT !.flow[f].pc = "confirm"]
    /\ UNCHANGED <<schema, wire, now, ledger, audit, square, sqCalls, req, started>>

\* the run f goes on after its modal was answered with action
Resume(p, f, action) ==
    CASE p.flow[f].pc = "confirm" ->
           IF action = "confirm"
             THEN [updateButtonState(p, "loading") EXCEPT !.flow[f].pc = "send"]
             ELSE [p EXCEPT !.flow[f].pc = "end"]
      [] p.flow[f].pc = "invalid" ->
           [updateButtonState(p, "error") EXCEPT !.flow[f].pc = "end"]
      [] p.flow[f].pc = "duplicate" ->
           [updateButtonState(p, "already-sent") EXCEPT !.flow[f].pc = "end"]
      [] OTHER -> [p EXCEPT !.flow[f].pc = "end"]

\* a click in the k-th overlay of the document.  The modal of showModal
\* drops its listener, closeModal removes the first overlay of the document
\* and the promise is resolved; the sign-in overlay removes itself.
ModalAction(k, action) ==
    /\ k \in DOMAIN page.overlays
    /\ page.overlays[k].listening
    /\ action \in ActionsOf(page.overlays[k].type)
    /\ page' =
         IF page.overlays[k].type = "signin"
           THEN [page EXCEPT !.overlays = RemoveAt(@, k)]
           ELSE Resume([page EXCEPT !.overlays =
                           closeModal([@ EXCEPT ![k].listening = FALSE])],
                       page.overlays[k].owner, action)
    /\ UNCHANGED <<schema, wire, now, ledger, audit, square, sqCalls, req, started>>

\* createInvoice() returns
SendReturns(f) ==
    /\ page.flow[f].pc = "send"
    /\ \E success \in BOOLEAN :
          page' = [page EXCEPT !.flow[f] = [pc |-> "log", success |-> success]]
    /\ UNCHANGED <<schema, wire, now, ledger, audit, square, sqCalls, req, started>>

\* addToLocalLog() returns; the button and the modal show the result
LogReturns(f) ==
    /\ page.flow[f].pc = "log"
    /\ LET result == IF page.flow[f].success THEN "success" ELSE "error"
       IN  page' = [showModal(updateButtonState(page, result), f, result)
                      EXCEPT !.flow[f].pc = "result"]
    /\ UNCHANGED <<schema, wire, now, ledger, audit, square, sqCalls, req, started>>

(***************************************************************************)
(* Spec: concurrent requests of authorized callers that pass the input     *)
(* gates, for two order numbers, on empty tables.                          *)
(***************************************************************************)
ValidBody(o) == MkBody(o, JaneDoe, JaneEmail, IntAmount(3250), IsoTime(0))

ValidInputs == { MkInput("POST", TRUE, "u1", ValidBody(o)) : o \in {OrderA, OrderB} }

Init ==
    /\ page = NoPage
    /\ schema = SentParameter
    /\ wire = ReadField
    /\ now = HourMs
    /\ ledger = <<>>
    /\ audit = {}
    /\ square = NoSquare
    /\ sqCalls = {}
    /\ req = [r \in Slots |-> IdleReq]
    /\ started = 0

ReceiveValid(r) == \E in \in ValidInputs : Receive(r, in, MaxRequests)

Next == \E r \in Slots : ReceiveValid(r) \/ Step(r)

Spec == Init /\ [][Next]_vars

(***************************************************************************)
(* SpecRace: requests of one authorized caller for one order number, on   *)
(* empty tables: two that may run at the same time, and later ones that    *)
(* arrive when the order has been completed.                               *)
(***************************************************************************)
RaceInput == MkInput("POST", TRUE, "u1", ValidBody(OrderA))

ReceiveRace(r) ==
    /\ started >= 2 => \E i \in DOMAIN ledger : ledger[i].status = "completed"
    /\ Receive(r, RaceInput, MaxRaceRequests)

NextRace == \E r \in Slots : ReceiveRace(r) \/ Step(r)

SpecRace == Init /\ [][NextRace]_vars

(***************************************************************************)
(* SpecSeq: requests handled one after another, with every kind of         *)
(* request, on tables that earlier requests have filled.                   *)
(***************************************************************************)
BodyOf(o, n, e, a, age) == MkBody(o, n, e, a, IsoTime(age))

SeqBodies ==
    { ValidBody(OrderA), ValidBody(OrderB), InvalidJsonBody, NullBody,
      \* one rule broken
      BodyOf(<<>>, JaneDoe, JaneEmail, IntAmount(3250), 0),
      BodyOf(OrderBad, JaneDoe, JaneEmail, IntAmount(3250), 0),
      BodyOf(OrderA, JaneDoe, BadEmail, IntAmount(3250), 0),
      BodyOf(OrderA, JaneDoe, JaneEmail, IntAmount(0), 0),
      BodyOf(OrderA, JaneDoe, JaneEmail, IntAmount(MAX_AMOUNT_CENTS + 1), 0),
      BodyOf(OrderA, JaneDoe, JaneEmail, FloatAmount(32), 0),
      BodyOf(OrderA, JaneDoe, JaneEmail, NoAmount, 0),
      MkBody(OrderA, JaneDoe, JaneEmail, IntAmount(3250), NoTime),
      MkBody(OrderA, JaneDoe, JaneEmail, IntAmount(3250), GarbageTime),
      \* the edges of the amount
      BodyOf(OrderA, JaneDoe, JaneEmail, IntAmount(1), 0),
      BodyOf(OrderA, JaneDoe, JaneEmail, IntAmount(MAX_AMOUNT_CENTS), 0),
      BodyOf(OrderA, JaneDoe, JaneEmail, IntAmount(-1), 0),
      \* the edges of the replay window
      BodyOf(OrderA, JaneDoe, JaneEmail, IntAmount(3250), REPLAY_WINDOW_SECONDS * 1000),
      BodyOf(OrderA, JaneDoe, JaneEmail, IntAmount(3250), REPLAY_WINDOW_SECONDS * 1000 + 100),
      BodyOf(OrderA, JaneDoe, JaneEmail, IntAmount(3250), -(FutureSkewSeconds * 1000)),
      BodyOf(OrderA, JaneDoe, JaneEmail, IntAmount(3250), -(FutureSkewSeconds * 1000) - 100),
      \* several fields missing
      MkBody(<<>>, JaneDoe, <<>>, NoAmount, IsoTime(0)),
      MkBody(OrderBad, <<>>, BadEmail, IntAmount(0), NoTime),
      \* several rules broken
      BodyOf(OrderBad, <<>>, BadEmail, IntAmount(0), REPLAY_WINDOW_SECONDS * 1000 + 100),
      BodyOf(OrderBad, JaneDoe, BadEmail, IntAmount(3250), 0),
      BodyOf(OrderA, JaneDoe, BadEmail, IntAmount(0), 0),
      BodyOf(OrderA, JaneDoe, JaneEmail, IntAmount(0), REPLAY_WINDOW_SECONDS * 1000 + 100),
      MkBody(OrderA, JaneDoe, BadEmail, IntAmount(3250), GarbageTime) }

SeqCredentials == {"none", "basic", "invalid", "expired", "u1", "u2", "u3", "u4"}

SeqInputs ==
    { MkInput("POST", TRUE, a, b) : a \in SeqCredentials, b \in SeqBodies }
    \cup { MkInput("OPTIONS", TRUE, "none", NullBody),
           MkInput("GET", TRUE, "u1", ValidBody(OrderA)),
           MkInput("POST", FALSE, "u1", ValidBody(OrderA)) }

\* what earlier requests left behind.  Correlation ids above 100 belong to
\* requests that were answered before the behaviour starts.
SeedEntry(k, t, user, order, result, code) ==
    [MkEntry(100 + k, user, order, result, code) EXCEPT !.timestamp = t]

\* the record of an order whose every attempt failed in the customer search
FailedRow(order, user) ==
    [NewRow(1, order, user, 3250, JaneDoe, JaneEmail)
        EXCEPT !.status = "failed", !.error_message = "Customer search failed"]

\* the record of an order that was invoiced more than an hour ago
CompletedRow(order, user) ==
    [NewRow(1, order, user, 3250, JaneDoe, JaneEmail)
        EXCEPT !.status = "completed", !.completed_at = 0,
               !.square_customer_id = custKey(order),
               !.square_order_id = ordKey(order),
               !.square_invoice_id = invKey(order),
               !.steps_completed = <<"customer_search", "customer_created",
                                     "order_created", "invoice_created",
                                     "invoice_published">>]

SquareAfter(order) ==
    [ customers |-> {[id |-> custKey(order), email_address |-> JaneEmail]},
      orders |-> {[id |-> ordKey(order), reference_id |-> order,
                   customer_id |-> custKey(order), amount |-> 3250]},
      invoices |-> {[id |-> invKey(order), order_id |-> ordKey(order),
                     customer_id |-> custKey(order), version |-> 1,
                     status |-> "UNPAID"]},
      keys |-> {custKey(order), ordKey(order), invKey(order), pubKey(order)} ]

CallsAfter(order) ==
    { SqCall("customers.search", NoId, order),
      SqCall("customers.create", custKey(order), order),
      SqCall("orders.create", ordKey(order), order),
      SqCall("invoices.create", invKey(order), order),
      SqCall("invoices.get", NoId, order),
      SqCall("invoices.publish", pubKey(order), order) }

BackgroundUser(k) ==
    CASE k % 5 = 0 -> "b0" [] k % 5 = 1 -> "b1" [] k % 5 = 2 -> "b2"
      [] k % 5 = 3 -> "b3" [] OTHER -> "b4"

Seeds == {"empty", "completed", "userBusy", "globalBusy", "bothBusy"}

\* the tables and the platform of a seed, at the time HourMs
SeedLedger(seed) ==
    CASE seed = "empty" -> <<>>
      [] seed = "completed" -> <<CompletedRow(OrderA, "u4")>>
      [] seed \in {"userBusy", "bothBusy"} -> <<FailedRow(OrderB, "u1")>>
      [] OTHER -> <<FailedRow(OrderB, "b0")>>

SeedAudit(seed) ==
    CASE seed = "empty" -> {}
      [] seed = "completed" -> {SeedEntry(0, 0, "u4", OrderA, "SUCCESS", "NONE")}
      [] seed = "userBusy" ->
           \* one attempt an hour ago and USER_RATE_LIMIT - 1 attempts since
           { SeedEntry(k, IF k = 0 THEN 0 ELSE HourMs, "u1", OrderB, "FAILURE",
                       "SQUARE_CUSTOMER_ERROR") : k \in 0..(USER_RATE_LIMIT - 1) }
      [] seed = "bothBusy" ->
           \* USER_RATE_LIMIT - 1 attempts of the caller and so many of five
           \* other callers that all are GLOBAL_RATE_LIMIT - 1
           { SeedEntry(k, HourMs, IF k < USER_RATE_LIMIT THEN "u1" ELSE BackgroundUser(k),
                       OrderB, "FAILURE", "SQUARE_CUSTOMER_ERROR") :
               k \in 1..(GLOBAL_RATE_LIMIT - 1) }
      [] OTHER ->
           \* GLOBAL_RATE_LIMIT - 1 attempts of five other callers
           { SeedEntry(k, HourMs, BackgroundUser(k), OrderB, "FAILURE",
                       "SQUARE_CUSTOMER_ERROR") : k \in 1..(GLOBAL_RATE_LIMIT - 1) }

InitSeq ==
    /\ page = NoPage
    /\ schema = SentParameter
    /\ wire = ReadField
    /\ now = HourMs
    /\ req = [r \in Slots |-> IdleReq]
    /\ started = 0
    /\ \E seed \in Seeds :
          /\ ledger = SeedLedger(seed)
          /\ audit = SeedAudit(seed)
          /\ square = IF seed = "completed" THEN SquareAfter(OrderA) ELSE NoSquare
          /\ sqCalls = IF seed = "completed" THEN CallsAfter(OrderA)
                       ELSE IF seed = "empty" THEN {}
                       ELSE {SqCall("customers.search", NoId, OrderB)}

ReceiveAny(r) == \E in \in SeqInputs : Receive(r, in, MaxSeqRequests)

NextSeq == ReceiveAny(1) \/ Step(1)

SpecSeq == InitSeq /\ [][NextSeq]_vars

\* The same requests, one after the other, against both databases: the one
\* whose function takes the argument the handler sends, as in the
\* specifications above, and the one the migration of this repository
\* builds, whose function declares check_user_id.
InitSchema ==
    /\ page = NoPage
    /\ schema \in {DeclaredParameter, SentParameter}
    /\ wire = ReadField
    /\ now = HourMs
    /\ req = [r \in Slots |-> IdleReq]
    /\ started = 0
    /\ \E seed \in Seeds :
          /\ ledger = SeedLedger(seed)
          /\ audit = SeedAudit(seed)
          /\ square = IF seed = "completed" THEN SquareAfter(OrderA) ELSE NoSquare
          /\ sqCalls = IF seed = "completed" THEN CallsAfter(OrderA)
                       ELSE IF seed = "empty" THEN {}
                       ELSE {SqCall("customers.search", NoId, OrderB)}

SpecSchema == InitSchema /\ [][NextSeq]_vars

\* The same requests, one after the other, against a platform that answers
\* a search as searchCustomerByEmail reads it, as in the specifications
\* above, and against one that answers with the list in customers.
InitWire ==
    /\ page = NoPage
    /\ schema = SentParameter
    /\ wire \in {AnswerField, ReadField}
    /\ now = HourMs
    /\ req = [r \in Slots |-> IdleReq]
    /\ started = 0
    /\ \E seed \in Seeds :
          /\ ledger = SeedLedger(seed)
          /\ audit = SeedAudit(seed)
          /\ square = IF seed = "completed" THEN SquareAfter(OrderA) ELSE NoSquare
          /\ sqCalls = IF seed = "completed" THEN CallsAfter(OrderA)
                       ELSE IF seed = "empty" THEN {}
                       ELSE {SqCall("customers.search", NoId, OrderB)}

SpecWire == InitWire /\ [][NextSeq]_vars

\* Valid requests of u1, one after the other, against the seeded tables,
\* with count functions that may answer any query with an error.
ReceiveOutage(r) == \E in \in ValidInputs : Receive(r, in, MaxSeqRequests)

NextOutage == ReceiveOutage(1) \/ Step(1) \/ RateUserFails(1) \/ RateGlobalFails(1)

SpecOutage == InitSeq /\ [][NextOutage]_vars

\* The content script on one order page: up to MaxClicks clicks on the
\* button and any clicks in the modals, while the calls of the runs return
\* in any order.  The handler is not part of this specification.
InitPage ==
    /\ page = NoPage
    /\ schema = SentParameter
    /\ wire = ReadField
    /\ now = HourMs
    /\ ledger = <<>>
    /\ audit = {}
    /\ square = NoSquare
    /\ sqCalls = {}
    /\ req = [r \in Slots |-> IdleReq]
    /\ started = 0

NextPage ==
    \/ \E f \in Flows :
          \/ Click(f)
          \/ AuthReturns(f)
          \/ StatusReturns(f)
          \/ SendReturns(f)
          \/ LogReturns(f)
    \/ \E k \in 1..(2 * MaxClicks), action \in {"confirm", "cancel", "close"} :
          ModalAction(k, action)

SpecPage == InitPage /\ [][NextPage]_vars

\* Spec with every call returning: an invocation that can take a step
\* takes it in the end.
SpecLive == Init /\ [][Next]_vars /\ \A r \in Slots : WF_vars(Step(r))

\* Two concurrent valid requests of u1, as in Spec, when the audit log holds
\* one saga run less than a limit allows.
InitBurst ==
    /\ page = NoPage
    /\ schema = SentParameter
    /\ wire = ReadField
    /\ now = HourMs
    /\ req = [r \in Slots |-> IdleReq]
    /\ started = 0
    /\ square = NoSquare
    /\ sqCalls = {SqCall("customers.search", NoId, OrderB)}
    /\ \E seed \in {"userBusy", "globalBusy"} :
          /\ ledger = SeedLedger(seed)
          /\ audit = SeedAudit(seed)

SpecBurst == InitBurst /\ [][Next]_vars

\* Attempts for one order, one after the other, that differ in the customer
\* and the amount they carry.
RetryInputs ==
    { MkInput("POST", TRUE, "u1", ValidBody(OrderA)),
      MkInput("POST", TRUE, "u1", BodyOf(OrderA, JohnRoe, JohnEmail, IntAmount(9900), 0)) }

ReceiveRetry(r) == \E in \in RetryInputs : Receive(r, in, MaxRetryRequests)

NextRetry == ReceiveRetry(1) \/ Step(1)

SpecRetry == InitSeq /\ [][NextRetry]_vars

\* The requests of SpecSeq, one after the other, with an audit table that
\* may refuse any insert.
NextAudit == ReceiveAny(1) \/ Step(1) \/ LogAuditFails(1)

SpecAudit == InitSeq /\ [][NextAudit]_vars

(***************************************************************************)
(* Properties.                                                             *)
(***************************************************************************)
Done(r) == req[r].pc = "done"

Code(r) == req[r].resp.body.code

OrderOf(r) == req[r].input.body.order_number

OrderNumbers == {OrderA, OrderB}

\* the orders and the invoices the platform holds for an order number
SqOrdersOf(o) == { x \in square.orders : x.reference_id = o }
SqInvoicesOf(o) ==
    { i \in square.invoices : \E x \in SqOrdersOf(o) : i.order_id = x.id }

\* C1 as stated: a valid request that arrives when the ledger holds the
\* record of its order number with status completed is answered
\* DUPLICATE_ORDER with HTTP 409, makes no call to the platform and no write
\* to the ledger, and the platform holds no second invoice for the order
\* number.
C1_CompletedIsDuplicate ==
    \A r \in Slots :
        (Done(r) /\ req[r].afterCompleted)
        => /\ Code(r) = "DUPLICATE_ORDER"
           /\ req[r].resp.status = 409
           /\ req[r].nCalls = 0
           /\ req[r].nWrites = 0
           /\ Cardinality(SqInvoicesOf(OrderOf(r))) = 1

C1_Witness ==
    \E r \in Slots :
        /\ Done(r)
        /\ req[r].existingOrder.status = "completed"
        /\ Code(r) = "DUPLICATE_ORDER"

\* C2 as stated: of two simultaneous first-time requests for one order
\* number that pass every gate, with the platform succeeding, exactly one is
\* answered DUPLICATE_ORDER.
C2_OneDuplicateOfTwo ==
    \A r1, r2 \in Slots :
        ( /\ r1 # r2
          /\ Done(r1) /\ Done(r2)
          /\ OrderOf(r1) = OrderOf(r2)
          /\ req[r1].firstTime /\ req[r2].firstTime
          /\ Code(r1) \in {"OK", "DUPLICATE_ORDER"}
          /\ Code(r2) \in {"OK", "DUPLICATE_ORDER"} )
        => Cardinality({ r \in {r1, r2} : Code(r) = "DUPLICATE_ORDER" }) = 1

\* C3: the ledger holds at most one record for an order number, also when
\* two requests both found no record and both insert.
C3_UniqueOrderNumber ==
    \A i, j \in DOMAIN ledger :
        ledger[i].order_number = ledger[j].order_number => i = j

\* a request that found no record had its insert refused
C3_Witness ==
    \E r \in Slots :
        /\ Done(r)
        /\ req[r].existingOrder = NoRow
        /\ req[r].nWrites = 1
        /\ Code(r) = "DUPLICATE_ORDER"
        /\ Len(ledger) = 1

MutatingOps ==
    {"customers.create", "orders.create", "invoices.create", "invoices.publish"}

KeyPrefix(op) ==
    CASE op = "customers.create" -> <<"c", "u", "s", "t", "-">>
      [] op = "orders.create" -> <<"o", "r", "d", "-">>
      [] op = "invoices.create" -> <<"i", "n", "v", "-">>
      [] OTHER -> <<"p", "u", "b", "-">>

\* C4: every mutating call the platform received carries the key
\* cust-/ord-/inv-/pub-{order_number}, the same in every attempt, and the
\* platform holds at most one order and one invoice for an order number.
C4_IdempotencyKeys ==
    /\ \A c \in sqCalls :
          c.op \in MutatingOps => c.key = KeyPrefix(c.op) \o c.order
    /\ \A c1, c2 \in sqCalls :
          (c1.op = c2.op /\ c1.order = c2.order) => c1.key = c2.key
    /\ \A o \in OrderNumbers :
          /\ Cardinality(SqOrdersOf(o)) <= 1
          /\ Cardinality(SqInvoicesOf(o)) <= 1

\* a retry that reused a record whose earlier attempt had created the order
\* and the invoice has run the whole saga again
C4_Witness ==
    \E r \in Slots :
        /\ Done(r)
        /\ Code(r) = "OK"
        /\ req[r].existingOrder.status = "failed"
        /\ req[r].existingOrder.square_invoice_id # NoId
        /\ Cardinality(SqOrdersOf(OrderOf(r))) = 1
        /\ Cardinality(SqInvoicesOf(OrderOf(r))) = 1

\* C5 as stated: a record whose status is completed keeps that status.
C5_CompletedIsFinal ==
    [][ \A i \in DOMAIN ledger :
          ledger[i].status = "completed" => ledger'[i].status = "completed" ]_vars

\* C6 as stated: a request that has been answered has written exactly one
\* audit entry.
C6_OneAuditEntryPerExit ==
    \A r \in Slots : Done(r) => req[r].nAudit = 1

\* C7 as stated: the response carries the correlation id generated for the
\* request in its body and in its header, and an audit entry carries it.
C7_CorrelationIdEverywhere ==
    \A r \in Slots :
        Done(r) =>
            /\ req[r].correlationId # NoCorr
            /\ req[r].resp.body.correlation_id = req[r].correlationId
            /\ req[r].resp.header_correlation_id = req[r].correlationId
            /\ \E e \in audit : e.correlation_id = req[r].correlationId

(***************************************************************************)
(* Properties of SpecSeq.  The requests are handled one after another, so  *)
(* what a request met is read off the tables without its own audit entry.  *)
(***************************************************************************)
GateOrder == <<"auth", "authz", "validator", "replay", "rate", "ledger", "saga">>

FirstGates(n) == SubSeq(GateOrder, 1, n)

IsPrefix(g, q) == Len(g) <= Len(q) /\ \A i \in 1..Len(g) : g[i] = q[i]

AuthCodes == {"AUTH_MISSING", "AUTH_INVALID", "AUTH_EXPIRED"}

ValidationCodes ==
    { "VALIDATION_MISSING_FIELD", "VALIDATION_INVALID_ORDER",
      "VALIDATION_INVALID_EMAIL", "VALIDATION_INVALID_AMOUNT" }

SagaCodes ==
    { "OK", "SQUARE_CUSTOMER_ERROR", "SQUARE_ORDER_ERROR", "SQUARE_INVOICE_ERROR",
      "SQUARE_PUBLISH_ERROR" }

\* what the gates must decide, stated on the request and the tables
HoldsCredential(in) == in.auth \in Users

ActiveInvoicers == {"u1", "u4", "b0", "b1", "b2", "b3", "b4"}

WellFormed(b) ==
    /\ b.kind = "object"
    /\ b.order_number \in OrderNumbers
    /\ b.customer_name = JaneDoe
    /\ b.customer_email = JaneEmail
    /\ b.amount_cents.kind = "int"
    /\ b.amount_cents.val \in 1..5000000
    /\ b.request_timestamp.kind # "missing"

Fresh(b, t) ==
    /\ b.request_timestamp.kind = "iso"
    /\ t - b.request_timestamp.ms <= 120000
    /\ t - b.request_timestamp.ms >= -30000

\* the saga runs (entries SUCCESS or FAILURE) of the trailing hour, of one
\* caller and of all callers, not counting the request corr
RunsBefore(u, corr) ==
    Cardinality({ e \in audit : /\ e.user_id = u
                                /\ e.correlation_id # corr
                                /\ e.result \in {"SUCCESS", "FAILURE"}
                                /\ e.timestamp > now - HourMs })

AllRunsBefore(corr) ==
    Cardinality({ e \in audit : /\ e.correlation_id # corr
                                /\ e.result \in {"SUCCESS", "FAILURE"}
                                /\ e.timestamp > now - HourMs })

InvoicedBefore(o, corr) ==
    \E e \in audit : /\ e.cultivera_order_number = o
                     /\ e.correlation_id # corr
                     /\ e.result = "SUCCESS"

CompletedMessage == "Invoice already sent for order. View in Square Dashboard."

\* the request in slot r is rejected by one of the six gates
Rejected(rq) ==
    /\ rq.pc \in {"logAudit", "done"}
    /\ \/ rq.resp.body.code \in AuthCodes \cup ValidationCodes
       \/ rq.resp.body.code \in {"UNAUTHORIZED", "REPLAY_REJECTED",
                                 "RATE_LIMITED_USER", "RATE_LIMITED_GLOBAL"}
       \/ /\ rq.resp.body.code = "DUPLICATE_ORDER"
          /\ rq.resp.body.message = CompletedMessage

\* C9: a request rejected by the Auth Gate, the Authorization Check, the
\* Request Validator, the Replay Guard, the Rate Limiter or the
\* completed-duplicate check makes no call to the platform and no insert or
\* update of the ledger; the one thing it changes is the audit log, by one
\* entry.
C9_RejectedChangesNothing ==
    /\ [](\A r \in Slots :
            Rejected(req[r]) =>
               /\ req[r].nCalls = 0
               /\ req[r].nWrites = 0
               /\ req[r].pc = "done" => req[r].nAudit = 1)
    /\ [][ \A r \in Slots :
             Rejected(req'[r]) =>
               /\ ledger' = ledger
               /\ square' = square
               /\ sqCalls' = sqCalls
               /\ \/ audit' = audit
                  \/ /\ req'[r].pc = "done"
                     /\ \E e \in audit' : /\ e.correlation_id = req'[r].correlationId
                                          /\ audit' = audit \cup {e}
                                          /\ e \notin audit ]_vars

\* a rate-limited request and a completed duplicate have been answered
C9_Witness ==
    \E r \in Slots :
        /\ Done(r)
        /\ Rejected(req[r])
        /\ Code(r) = "DUPLICATE_ORDER"
        /\ ledger # <<>>
        /\ square # NoSquare

\* C10: handled one after another, the request that finds T - 1 saga runs
\* of its caller in the trailing hour passes the Rate Limiter and the one
\* that finds T is answered RATE_LIMITED_USER, 429, with retry_after; the
\* same for all callers and RATE_LIMITED_GLOBAL.  So the runs of a caller
\* in an hour never exceed T, nor those of all callers the global T.
C10_RateLimitBoundary ==
    /\ \A r \in Slots :
          LET rq == req[r]
              nUser == RunsBefore(rq.user, rq.correlationId)
              nAll == AllRunsBefore(rq.correlationId)
          IN  /\ (IsPrefix(FirstGates(5), rq.gates) /\ nUser >= USER_RATE_LIMIT) =>
                    /\ rq.pc \in {"logAudit", "done"}
                    /\ Code(r) = "RATE_LIMITED_USER"
                    /\ rq.resp.status = 429
                    /\ rq.resp.body.retry_after > 0
              /\ (IsPrefix(FirstGates(5), rq.gates) /\ nUser < USER_RATE_LIMIT) =>
                    /\ Code(r) # "RATE_LIMITED_USER"
                    /\ rq.pc # "logAudit" \/ rq.resp.status # 429 \/ nAll >= GLOBAL_RATE_LIMIT
              /\ ( /\ IsPrefix(FirstGates(5), rq.gates)
                   /\ rq.pc # "rateGlobal"
                   /\ nUser < USER_RATE_LIMIT
                   /\ nAll >= GLOBAL_RATE_LIMIT ) =>
                    /\ rq.pc \in {"logAudit", "done"}
                    /\ Code(r) = "RATE_LIMITED_GLOBAL"
                    /\ rq.resp.status = 429
                    /\ rq.resp.body.retry_after > 0
              /\ nAll < GLOBAL_RATE_LIMIT => Code(r) # "RATE_LIMITED_GLOBAL"
    /\ \A u \in Users : RunsBefore(u, NoCorr) <= USER_RATE_LIMIT
    /\ AllRunsBefore(NoCorr) <= GLOBAL_RATE_LIMIT

\* the T-th request of the caller ran the saga and the next one is rejected
C10_Witness ==
    \E r \in Slots :
        /\ Done(r)
        /\ Code(r) = "RATE_LIMITED_USER"
        /\ RunsBefore(req[r].user, NoCorr) = USER_RATE_LIMIT
        /\ \E e \in audit : /\ e.user_id = req[r].user
                            /\ e.result \in {"SUCCESS", "FAILURE"}
                            /\ e.correlation_id \in 1..MaxSeqRequests

\* the same at the global threshold
C10_WitnessGlobal ==
    \E r \in Slots :
        /\ Done(r)
        /\ Code(r) = "RATE_LIMITED_GLOBAL"
        /\ AllRunsBefore(NoCorr) = GLOBAL_RATE_LIMIT
        /\ \E e \in audit : /\ e.result \in {"SUCCESS", "FAILURE"}
                            /\ e.correlation_id \in 1..MaxSeqRequests

\* C11: the limit of the caller is checked before the global limit.  A
\* request that reaches the Rate Limiter with both counts at or above their
\* thresholds is answered RATE_LIMITED_USER with retry_after 3600;
\* RATE_LIMITED_GLOBAL, with retry_after 300, is the answer exactly when the
\* count of the caller is below its threshold and the global count is at or
\* above its threshold.
C11_UserLimitFirst ==
    \A r \in Slots :
        LET rq == req[r]
            nUser == RunsBefore(rq.user, rq.correlationId)
            nAll == AllRunsBefore(rq.correlationId)
            atLimiter == Done(r) /\ IsPrefix(FirstGates(5), rq.gates)
        IN  /\ (atLimiter /\ nUser >= USER_RATE_LIMIT) =>
                  /\ Code(r) = "RATE_LIMITED_USER"
                  /\ rq.resp.status = 429
                  /\ rq.resp.body.retry_after = 3600
                  /\ rq.gates = FirstGates(5)
            /\ (atLimiter /\ nUser < USER_RATE_LIMIT /\ nAll >= GLOBAL_RATE_LIMIT) =>
                  /\ Code(r) = "RATE_LIMITED_GLOBAL"
                  /\ rq.resp.status = 429
                  /\ rq.resp.body.retry_after = 300
            /\ (Done(r) /\ Code(r) = "RATE_LIMITED_GLOBAL") =>
                  nUser < USER_RATE_LIMIT /\ nAll >= GLOBAL_RATE_LIMIT
            /\ (Done(r) /\ Code(r) = "RATE_LIMITED_USER") => nUser >= USER_RATE_LIMIT

\* a request met both counts at their thresholds and was answered for the
\* caller's
C11_Witness ==
    \E r \in Slots :
        /\ Done(r)
        /\ Code(r) = "RATE_LIMITED_USER"
        /\ req[r].resp.body.retry_after = 3600
        /\ RunsBefore(req[r].user, req[r].correlationId) >= USER_RATE_LIMIT
        /\ AllRunsBefore(req[r].correlationId) >= GLOBAL_RATE_LIMIT

\* the body breaks no rule of the Request Validator other than, possibly,
\* the rule of the amount
OtherFieldsValid(b) ==
    /\ b.kind = "object"
    /\ b.order_number \in OrderNumbers
    /\ b.customer_name = JaneDoe
    /\ b.customer_email = JaneEmail
    /\ b.amount_cents.kind # "undefined"
    /\ b.request_timestamp.kind # "missing"

\* C12: the Request Validator accepts an amount exactly when it is an
\* integer with 0 < amount_cents <= 5,000,000: the ceiling is accepted, the
\* ceiling plus one, zero and negative amounts are answered
\* VALIDATION_INVALID_AMOUNT.
C12_AmountBoundary ==
    \A r \in Slots :
        LET rq == req[r]
            a == rq.input.body.amount_cents
        IN  ( /\ Done(r)
              /\ IsPrefix(FirstGates(3), rq.gates)
              /\ OtherFieldsValid(rq.input.body) ) =>
              /\ (a.kind = "int" /\ 0 < a.val /\ a.val <= 5000000) <=>
                    (Code(r) \notin ValidationCodes /\ IsPrefix(FirstGates(4), rq.gates))
              /\ ~(a.kind = "int" /\ 0 < a.val /\ a.val <= 5000000) <=>
                    ( /\ Code(r) = "VALIDATION_INVALID_AMOUNT"
                      /\ rq.resp.status = 400
                      /\ rq.gates = FirstGates(3) )
              /\ a = IntAmount(5000000) => Code(r) # "VALIDATION_INVALID_AMOUNT"
              /\ a \in {IntAmount(5000001), IntAmount(0), IntAmount(-1)} =>
                    Code(r) = "VALIDATION_INVALID_AMOUNT"

\* an order of the ceiling amount was invoiced and a request of the ceiling
\* plus one was refused
C12_Witness ==
    \E r \in Slots :
        /\ Done(r)
        /\ OtherFieldsValid(req[r].input.body)
        /\ req[r].input.body.amount_cents = IntAmount(5000001)
        /\ Code(r) = "VALIDATION_INVALID_AMOUNT"
        /\ \E i \in DOMAIN ledger : /\ ledger[i].amount_cents = 5000000
                                     /\ ledger[i].status = "completed"

\* C13: the Replay Guard accepts a request exactly when its timestamp can
\* be parsed and -30 s <= age <= 120 s, with age = now - request_timestamp:
\* the ages 120.0 s and -30.0 s are accepted, 120.1 s and -30.1 s and a
\* timestamp that cannot be parsed are answered REPLAY_REJECTED, HTTP 400.
C13_ReplayWindow ==
    \A r \in Slots :
        LET rq == req[r]
            ts == rq.input.body.request_timestamp
            age == now - ts.ms
            inWindow == ts.kind = "iso" /\ -30000 <= age /\ age <= 120000
        IN  /\ (Done(r) /\ IsPrefix(FirstGates(4), rq.gates)) =>
                  /\ inWindow <=> (Code(r) # "REPLAY_REJECTED"
                                     /\ IsPrefix(FirstGates(5), rq.gates))
                  /\ ~inWindow <=> ( /\ Code(r) = "REPLAY_REJECTED"
                                      /\ rq.resp.status = 400
                                      /\ rq.gates = FirstGates(4) )
                  /\ (ts.kind = "iso" /\ age \in {120000, -30000}) =>
                        Code(r) # "REPLAY_REJECTED"
                  /\ (ts.kind = "iso" /\ age \in {120100, -30100}) =>
                        Code(r) = "REPLAY_REJECTED"
                  /\ ts.kind = "garbage" => Code(r) = "REPLAY_REJECTED"
            /\ (Done(r) /\ Code(r) = "REPLAY_REJECTED") => rq.gates = FirstGates(4)

\* a request of age 120.0 s was invoiced
C13_Witness ==
    \E r \in Slots :
        /\ Done(r)
        /\ req[r].input.body.request_timestamp.kind = "iso"
        /\ now - req[r].input.body.request_timestamp.ms = 120000
        /\ Code(r) = "OK"

\* the status the list of C14 gives to an outcome
StatusOf(code) ==
    CASE code \in AuthCodes -> 401
      [] code = "UNAUTHORIZED" -> 403
      [] code \in ValidationCodes \cup {"REPLAY_REJECTED"} -> 400
      [] code = "DUPLICATE_ORDER" -> 409
      [] code \in {"RATE_LIMITED_USER", "RATE_LIMITED_GLOBAL"} -> 429
      [] code = "OK" -> 200
      [] OTHER -> 500

RateCodes == {"RATE_LIMITED_USER", "RATE_LIMITED_GLOBAL"}

\* C14 as stated: the status of every response is that of its outcome:
\* 401 authentication, 403 authorization, 400 validation and replay, 409
\* duplicate, 429 rate limiting, 500 downstream or internal failure, 200
\* success; retry_after is in the body of the 429 responses and of no other.
C14_StatusByOutcome ==
    \A r \in Slots :
        (Done(r) /\ req[r].input.method # "OPTIONS") =>
            /\ req[r].resp.status = StatusOf(Code(r))
            /\ req[r].resp.body.success <=> req[r].resp.status = 200
            /\ req[r].resp.body.retry_after > 0 <=> Code(r) \in RateCodes

\* C14 as amended: as stated, and a request whose method is not POST (nor
\* OPTIONS) is answered 405.
C14_StatusByOutcomeOr405 ==
    \A r \in Slots :
        (Done(r) /\ req[r].input.method # "OPTIONS") =>
            /\ req[r].resp.status =
                  IF req[r].input.method # "POST" THEN 405 ELSE StatusOf(Code(r))
            /\ req[r].input.method # "POST" => Code(r) = "INTERNAL_ERROR"
            /\ req[r].resp.body.success <=> req[r].resp.status = 200
            /\ req[r].resp.body.retry_after > 0 <=> Code(r) \in RateCodes

\* a request was answered 429 with retry_after after the saga failure of an
\* earlier one was answered 500
C14_Witness ==
    \E r \in Slots :
        /\ Done(r)
        /\ Code(r) \in RateCodes
        /\ req[r].resp.status = 429
        /\ req[r].resp.body.retry_after > 0
        /\ \E e \in audit : /\ e.result = "FAILURE"
                             /\ e.correlation_id \in 1..MaxSeqRequests

\* the error details of the six calls of the saga
PlatformErrors ==
    { "Customer search failed", "Customer creation failed", "Order creation failed",
      "Invoice creation failed", "Failed to get invoice", "Invoice publish failed" }

SagaErrorCodes == SagaCodes \ {"OK"}

\* a call of the saga of the request in slot r has failed
CallFailed(r) == req[r].pc = "markFailed" \/ Code(r) \in SagaErrorCodes

CodeAtFailure(message) ==
    CASE message = "Customer search failed" -> "SQUARE_CUSTOMER_ERROR"
      [] message \in {"Customer creation failed", "Order creation failed"} ->
           "SQUARE_ORDER_ERROR"
      [] message = "Invoice creation failed" -> "SQUARE_INVOICE_ERROR"
      [] OTHER -> "SQUARE_PUBLISH_ERROR"

Succeeded(rq) == rq.pc \in {"logAudit", "done"} /\ rq.resp.body.success

\* C17: a response with success = true is given only after the customer was
\* resolved and the order, the invoice and its publication succeeded on the
\* platform in this attempt and the record was set to completed with a
\* completion timestamp; its data are the customer id, order id and invoice
\* id of this attempt and the invoice number, and a SUCCESS audit entry is
\* written.
C17_SuccessAfterCompletion ==
    /\ [](\A r \in Slots :
            LET rq == req[r]
                d == rq.resp.body.data
                o == rq.input.body.order_number
                steps == rq.stepsCompleted
            IN  Succeeded(rq) =>
                  /\ rq.resp.status = 200
                  /\ Includes(steps, "customer_search")
                  /\ Includes(steps, "customer_found") \/ Includes(steps, "customer_created")
                  /\ Includes(steps, "order_created")
                  /\ Includes(steps, "invoice_created")
                  /\ Includes(steps, "invoice_published")
                  /\ rq.errorMessage = ""
                  /\ d.square_customer_id = rq.squareCustomerId
                  /\ d.square_order_id = rq.squareOrderId
                  /\ d.square_invoice_id = rq.squareInvoiceId
                  /\ d.invoice_number = rq.invoiceNumber
                  /\ d.invoice_number # NoId
                  /\ \E c \in square.customers : c.id = d.square_customer_id
                  /\ \E x \in square.orders : /\ x.id = d.square_order_id
                                               /\ x.reference_id = o
                  /\ \E i \in square.invoices : /\ i.id = d.square_invoice_id
                                                 /\ i.order_id = d.square_order_id
                                                 /\ i.status = "UNPAID"
                  /\ ledger[rq.processedOrderId].order_number = o
                  /\ ledger[rq.processedOrderId].completed_at # NullTime
                  /\ rq.entry.result = "SUCCESS"
                  /\ rq.entry.correlation_id = rq.correlationId
                  /\ rq.pc = "done" =>
                        /\ rq.nAudit = 1
                        /\ \E e \in audit : /\ e.correlation_id = rq.correlationId
                                             /\ e.result = "SUCCESS"
                                             /\ e.cultivera_order_number = o)
    /\ [][ \A r \in Slots :
             (Succeeded(req'[r]) /\ ~Succeeded(req[r])) =>
                /\ ledger'[req'[r].processedOrderId].status = "completed"
                /\ ledger'[req'[r].processedOrderId].completed_at = now ]_vars

\* the retry of a failed order was answered with success
C17_Witness ==
    \E r \in Slots :
        /\ Done(r)
        /\ req[r].resp.body.success
        /\ req[r].existingOrder.status = "failed"
        /\ ledger[req[r].processedOrderId].status = "completed"

\* C18 as stated: every write of steps_completed stores a list that
\* contains every step name of the list stored before, also across the
\* attempts of an order.
C18_StepsNeverShrink ==
    [][ \A i \in DOMAIN ledger :
          \A k \in 1..Len(ledger[i].steps_completed) :
              Includes(ledger'[i].steps_completed, ledger[i].steps_completed[k]) ]_vars

\* the lookup of the request found a record that is not completed
FoundOpen(rq) ==
    /\ rq.existingOrder # NoRow
    /\ rq.existingOrder.status \in {"pending", "processing", "failed"}

\* C19: a request whose lookup finds the record of its order number with
\* status pending, processing or failed reuses the record, with no second
\* record inserted, sets its status to processing and runs the saga from the
\* customer search whatever steps_completed the record holds; a failed
\* record can so become completed (the witness).
C19_ReuseAndRestart ==
    /\ [](\A r \in Slots :
            LET rq == req[r]
                o == rq.input.body.order_number
            IN  FoundOpen(rq) =>
                  /\ rq.existingOrder.order_number = o
                  /\ Cardinality({ i \in DOMAIN ledger : ledger[i].order_number = o }) = 1
                  /\ rq.pc # "insert"
                  /\ rq.pc # "reset" =>
                        /\ rq.processedOrderId = rq.existingOrder.id
                        /\ ledger[rq.processedOrderId].order_number = o
                        /\ rq.nWrites >= 1
                  /\ rq.pc = "search" => rq.stepsCompleted = <<>> /\ rq.nCalls = 0
                  /\ rq.nCalls > 0 =>
                        SqCall("customers.search", NoId, o) \in sqCalls
                  /\ rq.stepsCompleted # <<>> => rq.stepsCompleted[1] = "customer_search"
                  /\ Succeeded(rq) =>
                        /\ rq.nCalls = IF Includes(rq.stepsCompleted, "customer_created")
                                          THEN 6 ELSE 5
                        /\ \A op \in {"orders.create", "invoices.create",
                                       "invoices.publish"} :
                              \E c \in sqCalls : c.op = op /\ c.order = o)
    /\ [][ \A r \in Slots :
             (req[r].pc = "reset" /\ req'[r].pc # "reset") =>
                /\ FoundOpen(req[r])
                /\ req'[r].pc = "search"
                /\ Len(ledger') = Len(ledger)
                /\ ledger'[req[r].existingOrder.id].status = "processing" ]_vars

\* a record that was failed with the order and the invoice created has
\* become completed by a later request, which ran every step again
C19_Witness ==
    \E r \in Slots :
        /\ Done(r)
        /\ req[r].existingOrder.status = "failed"
        /\ Includes(req[r].existingOrder.steps_completed, "invoice_created")
        /\ req[r].nCalls >= 5
        /\ SelectOrder(OrderOf(r)).status = "completed"
        /\ Len(ledger) = 1

\* the request in slot r was refused by the Auth Gate
AuthRefused(rq) == rq.pc \in {"logAudit", "done"} /\ rq.resp.body.code \in AuthCodes

\* C20: a request without an Authorization header, or with one that does
\* not start with "Bearer ", is answered AUTH_MISSING; a credential the
\* provider refuses is answered AUTH_EXPIRED when the provider's error text
\* contains "expired" and AUTH_INVALID otherwise; the three are HTTP 401 and
\* the request changes nothing but the audit log, by one entry.
C20_AuthGate ==
    /\ [](\A r \in Slots :
            LET rq == req[r]
                a == rq.input.auth
            IN  /\ (Done(r) /\ rq.input.method = "POST" /\ rq.input.env_ok) =>
                      /\ a \in {"none", "basic"} <=> Code(r) = "AUTH_MISSING"
                      /\ a = "expired" <=> Code(r) = "AUTH_EXPIRED"
                      /\ a = "invalid" <=> Code(r) = "AUTH_INVALID"
                /\ AuthRefused(rq) =>
                      /\ rq.resp.status = 401
                      /\ ~rq.resp.body.success
                      /\ rq.gates = FirstGates(1)
                      /\ rq.user = NoUser
                      /\ rq.nCalls = 0
                      /\ rq.nWrites = 0
                      /\ rq.entry.error_code = rq.resp.body.code
                      /\ rq.pc = "done" =>
                            /\ rq.nAudit = 1
                            /\ \E e \in audit : /\ e.correlation_id = rq.correlationId
                                                 /\ e.error_code = rq.resp.body.code)
    /\ [][ \A r \in Slots :
             (AuthRefused(req'[r]) /\ req'[r] # req[r]) =>
                /\ ledger' = ledger
                /\ square' = square
                /\ sqCalls' = sqCalls
                /\ \/ audit' = audit /\ req'[r].pc = "logAudit"
                   \/ /\ req[r].pc = "logAudit"
                      /\ req'[r].pc = "done"
                      /\ audit' = audit \cup {[req[r].entry EXCEPT !.timestamp = now]}
                      /\ Cardinality(audit') = Cardinality(audit) + 1 ]_vars

\* an expired credential was refused when the tables and the platform held
\* the traces of an invoiced order
C20_Witness ==
    \E r \in Slots :
        /\ Done(r)
        /\ req[r].input.auth = "expired"
        /\ Code(r) = "AUTH_EXPIRED"
        /\ req[r].resp.status = 401
        /\ ledger # <<>>
        /\ square # NoSquare

\* C21: an authenticated caller passes the Authorization Check exactly when
\* authorized_invoicers has a row for the caller with role 'invoicer' and
\* revoked_at null, as is_authorized_invoicer decides; every other
\* authenticated caller is answered UNAUTHORIZED, HTTP 403, with an
\* UNAUTHORIZED audit entry.
C21_InvoicerPasses ==
    \A r \in Slots :
        LET rq == req[r]
        IN  (Done(r) /\ Includes(rq.gates, "authz")) =>
               IF is_authorized_invoicer(rq.user)
                 THEN /\ Code(r) # "UNAUTHORIZED"
                      /\ ~\E e \in audit : /\ e.correlation_id = rq.correlationId
                                           /\ e.result = "UNAUTHORIZED"
                 ELSE /\ Code(r) = "UNAUTHORIZED"
                      /\ rq.resp.status = 403
                      /\ rq.gates = FirstGates(2)
                      /\ \E e \in audit : /\ e.correlation_id = rq.correlationId
                                          /\ e.user_id = rq.user
                                          /\ e.result = "UNAUTHORIZED"

\* an active invoicer was answered UNAUTHORIZED by the database the
\* migration builds
C21_Witness ==
    \E r \in Slots :
        /\ Done(r)
        /\ schema = DeclaredParameter
        /\ is_authorized_invoicer(req[r].user)
        /\ Code(r) = "UNAUTHORIZED"
        /\ req[r].resp.status = 403

\* C22: a failure to write the audit entry never changes the response: at
\* every exit that calls logAudit the status and the body are those the
\* handler prepared, whether the insert stored the entry or failed, and the
\* failure does not abort the request.
C22_AuditFailureSilent ==
    [][ \A r \in Slots :
          (req[r].pc = "logAudit" /\ req'[r] # req[r]) =>
             /\ req'[r].pc = "done"
             /\ req'[r].resp = req[r].resp
             /\ req'[r].resp # uncaughtResponse
             /\ req'[r].resp.body.correlation_id = req[r].correlationId
             /\ \/ audit' = audit
                \/ audit' = audit \cup {[req[r].entry EXCEPT !.timestamp = now]}
             /\ ledger' = ledger
             /\ sqCalls' = sqCalls ]_vars

\* an invoice was published and the request answered with success, HTTP
\* 200, while its audit entry was not stored
C22_Witness ==
    \E r \in Slots :
        /\ Done(r)
        /\ req[r].resp.body.success
        /\ req[r].resp.status = 200
        /\ ~\E e \in audit : e.correlation_id = req[r].correlationId
        /\ \E i \in DOMAIN ledger : /\ ledger[i].status = "completed"
                                      /\ ledger[i].id = req[r].processedOrderId

\* the error codes of the classified failures
ClassifiedCodes ==
    AuthCodes \cup {"UNAUTHORIZED"} \cup ValidationCodes \cup {"REPLAY_REJECTED"}
        \cup RateCodes \cup {"DUPLICATE_ORDER"} \cup SagaErrorCodes
        \cup {"SQUARE_API_ERROR"}

\* C23: a POST that fails for a reason outside the classified categories
\* (such as a ledger insert refused for a reason other than a uniqueness
\* conflict) is answered with the catch-all INTERNAL_ERROR, HTTP 500, and
\* the correlation id of the request.
C23_CatchAllInternalError ==
    \A r \in Slots :
        LET rq == req[r]
        IN  (/\ Done(r)
             /\ rq.input.method = "POST"
             /\ ~rq.resp.body.success
             /\ Code(r) \notin ClassifiedCodes) =>
               /\ Code(r) = "INTERNAL_ERROR"
               /\ rq.resp.status = 500
               /\ rq.resp.body.correlation_id = rq.correlationId
               /\ rq.resp.header_correlation_id = rq.correlationId

\* the insert of a first-time request was refused for a reason other than
\* a uniqueness conflict and the request ended with the answer of the
\* runtime
C23_Witness ==
    \E r \in Slots :
        /\ Done(r)
        /\ req[r].firstTime
        /\ req[r].gates = FirstGates(6)
        /\ req[r].nWrites = 1
        /\ req[r].resp = uncaughtResponse
        /\ ~\E i \in DOMAIN ledger : ledger[i].order_number = OrderOf(r)

\* C24: a request that found no record of its order and whose insert fails
\* with a uniqueness conflict is answered DUPLICATE_ORDER, HTTP 409, with a
\* message other than that of the completed duplicate, writes a
\* DUPLICATE_BLOCKED audit entry and issues no call to the platform.
C24_InsertConflict ==
    /\ [][ \A r \in Slots :
             (/\ req[r].pc = "insert"
              /\ UniqueViolation(OrderOf(r))
              /\ req'[r] # req[r]) =>
                /\ req'[r].pc = "logAudit"
                /\ req'[r].resp.body.code = "DUPLICATE_ORDER"
                /\ req'[r].resp.status = 409
                /\ req'[r].resp.body.message # CompletedMessage
                /\ req'[r].resp.body.correlation_id = req[r].correlationId
                /\ req'[r].entry.result = "DUPLICATE_BLOCKED"
                /\ req'[r].entry.cultivera_order_number = OrderOf(r)
                /\ req'[r].nCalls = 0
                /\ ledger' = ledger
                /\ square' = square
                /\ sqCalls' = sqCalls ]_vars
    /\ [](\A r \in Slots :
            LET rq == req[r]
            IN  (/\ Done(r)
                 /\ Includes(rq.gates, "ledger")
                 /\ rq.existingOrder = NoRow
                 /\ rq.processedOrderId = 0
                 /\ rq.resp # uncaughtResponse) =>
                   /\ Code(r) = "DUPLICATE_ORDER"
                   /\ rq.resp.status = 409
                   /\ rq.resp.body.message # CompletedMessage
                   /\ rq.nCalls = 0
                   /\ rq.gates = FirstGates(6)
                   /\ \E e \in audit : /\ e.correlation_id = rq.correlationId
                                       /\ e.result = "DUPLICATE_BLOCKED"
                                       /\ e.cultivera_order_number = OrderOf(r))

\* of two requests for one new order the second met the record of the
\* first at its insert and was answered 409, while the first went on to the
\* platform
C24_Witness ==
    \E r, q \in Slots :
        /\ r # q
        /\ Done(r)
        /\ req[r].existingOrder = NoRow
        /\ Code(r) = "DUPLICATE_ORDER"
        /\ req[r].resp.body.message # CompletedMessage
        /\ req[r].nCalls = 0
        /\ OrderOf(q) = OrderOf(r)
        /\ req[q].processedOrderId # 0
        /\ req[q].nCalls > 0

\* the calls of one invocation when the customer has to be created, and
\* when the search finds the customer
CallOrderCreated ==
    << "customers.search", "customers.create", "orders.create", "invoices.create",
       "invoices.get", "invoices.publish" >>

CallOrderFound ==
    << "customers.search", "orders.create", "invoices.create", "invoices.get",
       "invoices.publish" >>

Ops(rq) == [k \in 1..Len(rq.calls) |-> rq.calls[k].op]

\* the call op of the invocation has returned successfully
Returned(rq, op) ==
    CASE op = "customers.search" -> Includes(rq.stepsCompleted, "customer_search")
      [] op = "customers.create" -> Includes(rq.stepsCompleted, "customer_created")
      [] op = "orders.create" -> Includes(rq.stepsCompleted, "order_created")
      [] op = "invoices.create" -> Includes(rq.stepsCompleted, "invoice_created")
      [] op = "invoices.get" -> rq.pc \in {"publish", "markCompleted", "logAudit", "done"}
                                  /\ rq.errorMessage # "Failed to get invoice"
      [] OTHER -> Includes(rq.stepsCompleted, "invoice_published")

\* C25: within one invocation the calls to the platform are issued in the
\* order customer search, customer create (when the search found nobody),
\* order create, invoice create, invoice fetch, invoice publish, each only
\* after every earlier one has returned successfully; a publish directly
\* follows a fetch and carries the version that fetch returned, and after a
\* failed fetch no publish is issued.
C25_CallOrder ==
    /\ [](\A r \in Slots :
            LET rq == req[r]
            IN  /\ IsPrefix(Ops(rq), CallOrderCreated) \/ IsPrefix(Ops(rq), CallOrderFound)
                /\ \A k \in DOMAIN rq.calls :
                      rq.calls[k].op = "invoices.publish" =>
                         /\ k > 1
                         /\ rq.calls[k - 1].op = "invoices.get"
                         /\ rq.calls[k].version = rq.version
                /\ rq.errorMessage = "Failed to get invoice" =>
                      ~\E k \in DOMAIN rq.calls : rq.calls[k].op = "invoices.publish")
    /\ [][ \A r \in Slots :
             (/\ req'[r].calls # req[r].calls
              /\ req'[r].correlationId = req[r].correlationId) =>
                /\ Len(req'[r].calls) = Len(req[r].calls) + 1
                /\ \A k \in DOMAIN req[r].calls :
                      /\ req'[r].calls[k] = req[r].calls[k]
                      /\ Returned(req[r], req[r].calls[k].op)
                /\ req[r].errorMessage = ""
                /\ IF req'[r].pc = "publish"
                     THEN \E i \in square.invoices : /\ i.id = req[r].squareInvoiceId
                                                     /\ i.version = req'[r].version
                     ELSE req'[r].version = req[r].version ]_vars

\* one invocation has issued the six calls and published its invoice;
\* another found the customer, issued four calls, failed in the fetch and
\* issued no publish
C25_Witness ==
    \E r, q \in Slots :
        /\ Done(r)
        /\ Ops(req[r]) = CallOrderCreated
        /\ req[r].resp.body.success
        /\ Done(q)
        /\ Ops(req[q]) = SubSeq(CallOrderFound, 1, 4)
        /\ Code(q) = "SQUARE_PUBLISH_ERROR"

\* the names a saga step adds to steps_completed once the write that
\* follows it (pc) has been made
StepsAfter(pc, steps) ==
    CASE pc = "updateCustomer" ->
             steps \in { <<"customer_search", "customer_found">>,
                         <<"customer_search", "customer_created">> }
      [] pc = "updateOrder" -> steps[Len(steps)] = "order_created" /\ Len(steps) = 3
      [] pc = "updateInvoice" -> steps[Len(steps)] = "invoice_created" /\ Len(steps) = 4
      [] OTHER -> steps[Len(steps)] = "invoice_published" /\ Len(steps) = 5

ProgressWrites == {"updateCustomer", "updateOrder", "updateInvoice", "markCompleted"}

\* C26: within one attempt, after each of the four saga steps (customer
\* resolution, order, invoice, publish) has succeeded and before the next
\* call to the platform, the record is written with the id the step
\* obtained and with steps_completed extended by the names of the step; the
\* values of steps_completed the attempt writes are each a prefix of the
\* next.
C26_ProgressWrites ==
    [][ \A r \in Slots :
          LET rq == req[r]
              id == rq.processedOrderId
          IN  /\ (rq.pc \in ProgressWrites /\ req'[r] # rq) =>
                    /\ ledger'[id].steps_completed = rq.stepsCompleted
                    /\ StepsAfter(rq.pc, ledger'[id].steps_completed)
                    /\ rq.pc = "updateCustomer" =>
                          /\ ledger'[id].square_customer_id = rq.squareCustomerId
                          /\ rq.squareCustomerId # NoId
                    /\ rq.pc = "updateOrder" =>
                          /\ ledger'[id].square_order_id = rq.squareOrderId
                          /\ rq.squareOrderId # NoId
                    /\ rq.pc = "updateInvoice" =>
                          /\ ledger'[id].square_invoice_id = rq.squareInvoiceId
                          /\ rq.squareInvoiceId # NoId
                    /\ rq.pc # "updateCustomer" =>
                          /\ IsPrefix(ledger[id].steps_completed,
                                      ledger'[id].steps_completed)
                          /\ Len(ledger[id].steps_completed) <
                                Len(ledger'[id].steps_completed)
                    /\ req'[r].calls = rq.calls
              /\ (rq.pc = "markFailed" /\ req'[r] # rq /\ rq.stepsCompleted # <<>>
                     /\ rq.stepsCompleted # <<"customer_search">>) =>
                    IsPrefix(ledger[id].steps_completed, ledger'[id].steps_completed)
              /\ (req'[r].calls # rq.calls /\ req'[r].correlationId = rq.correlationId
                     /\ rq.calls # <<>>
                     /\ req'[r].calls[Len(req'[r].calls)].op # "customers.create") =>
                    /\ ledger[id].steps_completed = rq.stepsCompleted
                    /\ ledger[id].square_customer_id = rq.squareCustomerId
                    /\ ledger[id].square_order_id = Keep(ledger[id].square_order_id,
                                                         rq.squareOrderId)
                    /\ ledger[id].square_invoice_id = Keep(ledger[id].square_invoice_id,
                                                           rq.squareInvoiceId)
                    /\ rq.calls[Len(rq.calls)].op = "invoices.get" \/
                          StepsAfter(CASE Len(rq.stepsCompleted) = 2 -> "updateCustomer"
                                       [] Len(rq.stepsCompleted) = 3 -> "updateOrder"
                                       [] OTHER -> "updateInvoice",
                                     ledger[id].steps_completed) ]_vars

\* a retry of a failed order has written its progress four times over the
\* record of the earlier attempt and completed it
C26_Witness ==
    \E r \in Slots :
        /\ Done(r)
        /\ req[r].existingOrder # NoRow
        /\ req[r].existingOrder.status = "failed"
        /\ req[r].resp.body.success
        /\ req[r].nWrites = 5
        /\ ledger[req[r].processedOrderId].steps_completed = req[r].stepsCompleted
        /\ Len(req[r].stepsCompleted) = 5

\* the names of the steps that succeeded in an attempt whose calls were
\* ops, the last of them the one that failed
SucceededSteps(ops) ==
    LET n == Len(ops)
        created == n >= 2 /\ ops[2] = "customers.create"
        customer == IF n = 1 THEN <<>>
                    ELSE IF ~created THEN <<"customer_search", "customer_found">>
                    ELSE IF n = 2 THEN <<"customer_search">>
                    ELSE <<"customer_search", "customer_created">>
        failed == ops[n]
    IN  customer \o
        (IF failed \in {"invoices.create", "invoices.get", "invoices.publish"}
           THEN <<"order_created">> ELSE <<>>) \o
        (IF failed \in {"invoices.get", "invoices.publish"}
           THEN <<"invoice_created">> ELSE <<>>)

\* C27: when the platform fails on the order-creation call the answer is
\* SQUARE_ORDER_ERROR, the record is failed and its steps_completed holds
\* the names of the customer-resolution step only; whatever call fails, the
\* stored steps_completed is the list of the steps that succeeded in this
\* attempt, in the order of their execution.
C27_FailureProgress ==
    \A r \in Slots :
        LET rq == req[r]
            row == ledger[rq.processedOrderId]
        IN  (Done(r) /\ Code(r) \in SagaErrorCodes) =>
               /\ row.status = "failed"
               /\ row.steps_completed = SucceededSteps(Ops(rq))
               /\ rq.errorMessage = "Order creation failed" =>
                     /\ Code(r) = "SQUARE_ORDER_ERROR"
                     /\ rq.resp.status = 500
                     /\ row.steps_completed \in
                           { <<"customer_search", "customer_found">>,
                             <<"customer_search", "customer_created">> }

\* a retry found the customer, failed in the order-creation call and left
\* the record failed with the two names of the customer resolution
C27_Witness ==
    \E r \in Slots :
        /\ Done(r)
        /\ req[r].errorMessage = "Order creation failed"
        /\ Code(r) = "SQUARE_ORDER_ERROR"
        /\ req[r].existingOrder # NoRow
        /\ ledger[req[r].processedOrderId].steps_completed =
              <<"customer_search", "customer_found">>

\* the call the invocation issues in this step
IssuedNow(rq, rq2, op) ==
    /\ rq2.correlationId = rq.correlationId
    /\ Len(rq2.calls) = Len(rq.calls) + 1
    /\ rq2.calls[Len(rq2.calls)].op = op

\* C28: in customer resolution the customer-create call is issued exactly
\* when the platform holds no customer with the email of the request; when
\* it holds one, the search finds it, its id is reused and no create call
\* is made; steps_completed of an attempt holds exactly one of
\* customer_found and customer_created.
C28_CustomerResolution ==
    /\ [](\A r \in Slots :
            LET steps == req[r].stepsCompleted
            IN  /\ ~(Includes(steps, "customer_found") /\ Includes(steps, "customer_created"))
                /\ Len(steps) >= 2 =>
                      (Includes(steps, "customer_found") \/ Includes(steps, "customer_created")))
    /\ [][ \A r \in Slots :
             LET rq == req[r]
                 held == SqCustomersByEmail(rq.input.body.customer_email)
             IN  /\ IssuedNow(rq, req'[r], "customers.create") => held = {}
                 /\ (IssuedNow(rq, req'[r], "customers.search")
                        /\ Includes(req'[r].stepsCompleted, "customer_search")) =>
                       IF held = {}
                         THEN req'[r].pc = "createCustomer"
                         ELSE /\ Includes(req'[r].stepsCompleted, "customer_found")
                              /\ \E c \in held : req'[r].squareCustomerId = c.id ]_vars

\* a customer was created for an order while the platform held a customer
\* with the email of the request
C28_Witness ==
    \E r \in Slots :
        /\ Done(r)
        /\ wire = AnswerField
        /\ Includes(req[r].stepsCompleted, "customer_created")
        /\ \E c, d \in SqCustomersByEmail(req[r].input.body.customer_email) : c # d

\* C29: order_number, customer_name, customer_email, amount_cents and
\* idempotency_key of a record are never modified once the record exists:
\* every update leaves them as they are, the reuse of the record by a retry
\* that carries another customer or another amount included.
C29_ImmutableFields ==
    [][ \A i \in DOMAIN ledger :
          /\ i \in DOMAIN ledger'
          /\ ledger'[i].order_number = ledger[i].order_number
          /\ ledger'[i].customer_name = ledger[i].customer_name
          /\ ledger'[i].customer_email = ledger[i].customer_email
          /\ ledger'[i].amount_cents = ledger[i].amount_cents
          /\ ledger'[i].idempotency_key = ledger[i].idempotency_key ]_vars

\* a retry with another customer and another amount has completed the
\* record, which still has the customer and the amount of its first request
C29_Witness ==
    \E r \in Slots :
        /\ Done(r)
        /\ req[r].resp.body.success
        /\ req[r].existingOrder # NoRow
        /\ LET row == ledger[req[r].processedOrderId]
               b == req[r].input.body
           IN  /\ row.status = "completed"
               /\ row.order_number = b.order_number
               /\ row.customer_name # b.customer_name
               /\ row.customer_email # b.customer_email
               /\ row.amount_cents # b.amount_cents.val

\* C30: the error_message of a record is never cleared: once a failed
\* attempt has set it, only a later failure writes it again; the reset to
\* processing and the completion of the record leave it as it is.
C30_ErrorMessageKept ==
    [][ \A i \in DOMAIN ledger :
          /\ i \in DOMAIN ledger'
          /\ ledger'[i].error_message # ledger[i].error_message =>
                /\ ledger'[i].status = "failed"
                /\ ledger'[i].error_message \in PlatformErrors
                /\ \E r \in Slots : /\ req[r].pc = "markFailed"
                                    /\ req[r].processedOrderId = i
                                    /\ req[r].errorMessage = ledger'[i].error_message
          /\ (ledger[i].error_message # NoRow.error_message
                 /\ ledger'[i].status \in {"processing", "completed"}) =>
                ledger'[i].error_message = ledger[i].error_message ]_vars

\* a record that failed in the order creation was reset by a retry and
\* completed, and still has the error message of the failure
C30_Witness ==
    \E r \in Slots :
        /\ Done(r)
        /\ req[r].resp.body.success
        /\ req[r].existingOrder # NoRow
        /\ req[r].existingOrder.status = "failed"
        /\ ledger[req[r].processedOrderId].status = "completed"
        /\ ledger[req[r].processedOrderId].error_message = "Order creation failed"

\* the audit results of the requests that did not reach the saga
RejectedResults ==
    { "AUTH_MISSING", "UNAUTHORIZED", "VALIDATION_FAILED", "REPLAY_REJECTED",
      "RATE_LIMITED", "DUPLICATE_BLOCKED" }

\* C31: the Rate Limiter counts the audit entries of the trailing hour with
\* result SUCCESS or FAILURE only: an entry with result AUTH_MISSING,
\* UNAUTHORIZED, VALIDATION_FAILED, REPLAY_REJECTED, RATE_LIMITED or
\* DUPLICATE_BLOCKED raises neither the count of its caller nor the global
\* count, and an entry that is an hour old or older is not counted.
C31_CountedEntries ==
    /\ [](\A r \in Slots :
            LET rq == req[r]
            IN  (rq.pc # "idle" /\ Includes(rq.gates, "rate")) =>
                   /\ rq.userRateCount = RunsBefore(rq.user, rq.correlationId)
                   /\ rq.pc \notin {"rateUser", "rateGlobal"} =>
                         \/ rq.globalRateCount = AllRunsBefore(rq.correlationId)
                         \/ rq.resp.body.code = "RATE_LIMITED_USER")
    /\ [][ \A e \in audit' \ audit :
             /\ \A u \in Users :
                   get_user_rate_limit_count(u)' =
                      get_user_rate_limit_count(u) +
                        (IF e.result \in {"SUCCESS", "FAILURE"} /\ e.user_id = u
                           THEN 1 ELSE 0)
             /\ get_global_rate_limit_count' =
                   get_global_rate_limit_count +
                     (IF e.result \in {"SUCCESS", "FAILURE"} THEN 1 ELSE 0)
             /\ e.result \in RejectedResults \cup {"SUCCESS", "FAILURE"} ]_vars

\* a caller with a failure an hour ago, failures since and a rejected
\* request of a moment ago passed the limiter with a count one below the
\* limit
C31_Witness ==
    \E r \in Slots :
        LET rq == req[r]
        IN  /\ Done(r)
            /\ Includes(rq.gates, "ledger")
            /\ rq.userRateCount = USER_RATE_LIMIT - 1
            /\ \E e \in audit : /\ e.user_id = rq.user
                                /\ e.result = "FAILURE"
                                /\ e.timestamp <= now - HourMs
            /\ \E e \in audit : /\ e.user_id = rq.user
                                /\ e.result \in RejectedResults
                                /\ e.correlation_id # rq.correlationId

\* the five fields of a request, and the fields a body lacks
FieldNames ==
    <<"order_number", "customer_name", "customer_email", "amount_cents",
      "request_timestamp">>

Lacks(b, field) ==
    CASE field = "order_number" -> b.order_number = <<>>
      [] field = "customer_name" -> b.customer_name = <<>>
      [] field = "customer_email" -> b.customer_email = <<>>
      [] field = "amount_cents" -> b.amount_cents.kind = "undefined"
      [] OTHER -> b.request_timestamp.kind = "missing"

\* the code of the first rule a body breaks, in the order of the claim
FirstBrokenRule(b) ==
    IF \E k \in DOMAIN FieldNames : Lacks(b, FieldNames[k])
      THEN "VALIDATION_MISSING_FIELD"
    ELSE IF b.order_number = OrderBad THEN "VALIDATION_INVALID_ORDER"
    ELSE IF b.customer_email = BadEmail THEN "VALIDATION_INVALID_EMAIL"
    ELSE IF ~(b.amount_cents.kind = "int" /\ b.amount_cents.val \in 1..5000000)
      THEN "VALIDATION_INVALID_AMOUNT"
    ELSE "OK"

C33_LimitsHold ==
    /\ \A u \in Users : get_user_rate_limit_count(u) <= USER_RATE_LIMIT
    /\ get_global_rate_limit_count <= GLOBAL_RATE_LIMIT

\* two requests of one caller have both read a count one below the limit
\* and both are in the saga
C33_Witness ==
    \E r, q \in Slots :
        /\ r # q
        /\ req[r].user = req[q].user
        /\ req[r].userRateCount = USER_RATE_LIMIT - 1
        /\ req[q].userRateCount = USER_RATE_LIMIT - 1
        /\ Includes(req[r].gates, "saga")
        /\ Includes(req[q].gates, "saga")

\* C34: in every reachable state a record with status completed has
\* order_created, invoice_created and invoice_published in steps_completed
\* and has its square_customer_id, square_order_id and square_invoice_id,
\* whatever the interleaving of the requests for its order number.
C34_CompletedIsWhole ==
    \A i \in DOMAIN ledger :
        ledger[i].status = "completed" =>
           /\ Includes(ledger[i].steps_completed, "order_created")
           /\ Includes(ledger[i].steps_completed, "invoice_created")
           /\ Includes(ledger[i].steps_completed, "invoice_published")
           /\ ledger[i].square_customer_id # NoId
           /\ ledger[i].square_order_id # NoId
           /\ ledger[i].square_invoice_id # NoId

\* a record was completed by one request while another request for the
\* same order was in its saga
C34_Witness ==
    \E r, q \in Slots :
        /\ r # q
        /\ req[r].processedOrderId # 0
        /\ req[q].processedOrderId = req[r].processedOrderId
        /\ ledger[req[r].processedOrderId].status = "completed"
        /\ req[r].pc \in {"logAudit", "done"}
        /\ req[r].resp.body.success
        /\ req[q].pc = "updateCustomer"

\* the request in slot r has inserted a record or reset one to processing
\* and has not responded
Holding(r) == req[r].processedOrderId # 0 /\ req[r].pc \notin {"idle", "done"}

\* C35: when every external and storage call returns, a request that has
\* inserted a record or reset one to processing writes status completed or
\* failed to it before it responds, and it does respond; so whenever no
\* request is in flight no record has status processing.
C35_NoRecordLeftProcessing ==
    /\ [](\A r \in Slots :
            (Done(r) /\ req[r].processedOrderId # 0) =>
               \/ req[r].resp.body.success
               \/ Code(r) \in SagaErrorCodes)
    /\ []((\A r \in Slots : req[r].pc \in {"idle", "done"}) =>
             \A i \in DOMAIN ledger : ledger[i].status # "processing")
    /\ [][ \A r \in Slots :
             (Holding(r) /\ req'[r].pc = "logAudit" /\ req[r].pc # "logAudit") =>
                LET row == ledger'[req[r].processedOrderId]
                IN  IF req'[r].resp.body.success
                      THEN row.status = "completed"
                      ELSE row.status = "failed" ]_vars
    /\ \A r \in Slots : Holding(r) ~> Done(r)

\* two requests have run their sagas on one record, one failed and one
\* succeeded, no request is in flight and the record is not processing
C35_Witness ==
    /\ \A r \in Slots : req[r].pc \in {"idle", "done"}
    /\ \E r, q \in Slots :
          /\ Done(r)
          /\ Done(q)
          /\ req[r].processedOrderId # 0
          /\ req[q].processedOrderId = req[r].processedOrderId
          /\ req[r].resp.body.success
          /\ Code(q) \in SagaErrorCodes
          /\ ledger[req[r].processedOrderId].status \in {"completed", "failed"}

\* the error code that names the saga step of an external call
StepCodeOf(op) ==
    CASE op \in {"customers.search", "customers.create"} -> "SQUARE_CUSTOMER_ERROR"
      [] op = "orders.create" -> "SQUARE_ORDER_ERROR"
      [] op = "invoices.create" -> "SQUARE_INVOICE_ERROR"
      [] OTHER -> "SQUARE_PUBLISH_ERROR"

\* the external call whose failure ended the saga attempt: the last one made
FailedCall(rq) == rq.calls[Len(rq.calls)].op

\* C36: when a saga attempt fails, the returned error code names the step
\* whose external call failed: customer search or creation gives
\* SQUARE_CUSTOMER_ERROR, order creation SQUARE_ORDER_ERROR, invoice creation
\* SQUARE_INVOICE_ERROR, invoice fetch or publish SQUARE_PUBLISH_ERROR.
C36_CodeNamesFailedStep ==
    \A r \in Slots :
        (Done(r) /\ Code(r) \in SagaErrorCodes /\ Len(req[r].calls) > 0) =>
           Code(r) = StepCodeOf(FailedCall(req[r]))

\* a request whose customer creation failed has been answered
C36_Witness ==
    \E r \in Slots :
        /\ Done(r)
        /\ Code(r) \in SagaErrorCodes
        /\ Len(req[r].calls) > 0
        /\ FailedCall(req[r]) = "customers.create"

\* C37: a per-caller or global count query that fails and yields no value
\* leaves the request below the limit: the request is not answered with the
\* RATE_LIMITED code of that check and goes on, to the global check, the
\* ledger lookup and, with the record the ledger gives it, the saga.
C37_FailedCountPasses ==
    /\ [](\A r \in Slots :
            /\ (Done(r) /\ req[r].userRateCount = NullCount) =>
                  Code(r) # "RATE_LIMITED_USER"
            /\ (Done(r) /\ req[r].globalRateCount = NullCount) =>
                  /\ Code(r) \notin {"RATE_LIMITED_USER", "RATE_LIMITED_GLOBAL"}
                  /\ Includes(req[r].gates, "ledger")
                  /\ req[r].processedOrderId # 0 => Includes(req[r].gates, "saga"))
    /\ [][ \A r \in Slots :
             /\ (req[r].pc = "rateUser" /\ req'[r].userRateCount = NullCount) =>
                   req'[r].pc = "rateGlobal"
             /\ (req[r].pc = "rateGlobal" /\ req'[r].globalRateCount = NullCount) =>
                   req'[r].pc = "lookup" ]_vars

\* a request whose two count queries failed while the caller had reached the
\* per-caller limit has run the saga
C37_Witness ==
    \E r \in Slots :
        /\ Done(r)
        /\ req[r].userRateCount = NullCount
        /\ req[r].globalRateCount = NullCount
        /\ Includes(req[r].gates, "saga")
        /\ get_user_rate_limit_count(req[r].user) > USER_RATE_LIMIT

\* the email addresses of the customers of the platform
CustomerEmails == { c.email_address : c \in square.customers }

\* C38: for any email address at most one customer is created on the
\* platform across all requests, also by concurrent requests for different
\* order numbers that carry the same customer email.
C38_OneCustomerPerEmail ==
    \A e \in CustomerEmails : Cardinality(SqCustomersByEmail(e)) <= 1

\* two requests for different order numbers with one customer email have
\* both searched the customer and resolved it
C38_Witness ==
    \E r, q \in Slots :
        /\ r # q
        /\ req[r].input.body.order_number # req[q].input.body.order_number
        /\ req[r].input.body.customer_email = req[q].input.body.customer_email
        /\ req[r].squareCustomerId # NoId
        /\ req[q].squareCustomerId # NoId
        /\ Includes(req[r].stepsCompleted, "customer_search")
        /\ Includes(req[q].stepsCompleted, "customer_search")

\* C39: for every order-creation call sent to the platform for an order
\* number, the amount sent equals the amount_cents of the ledger record of
\* that order number, also when a retry that reuses the record makes the call.
C39_AmountSentIsStored ==
    \A r \in Slots :
        \A k \in DOMAIN req[r].calls :
            req[r].calls[k].op = "orders.create" =>
               req[r].calls[k].amount = ledger[req[r].processedOrderId].amount_cents

\* a retry that reuses the record of an earlier attempt has sent its
\* order-creation call
C39_Witness ==
    \E r \in Slots :
        /\ ~req[r].firstTime
        /\ req[r].processedOrderId # 0
        /\ \E k \in DOMAIN req[r].calls : req[r].calls[k].op = "orders.create"

\* C40: in the content script, for any sequence of clicks on the button and
\* actions in the modals on one page, at most one createInvoice request is
\* in flight at a time, and a click starts no second run of
\* handleSendToSquare while an earlier one has not finished.
C40_OneSendAtATime ==
    /\ [](Cardinality(InFlight) <= 1)
    /\ [][ \A f \in Flows :
             (page.flow[f].pc = "none" /\ page'.flow[f].pc = "auth") =>
                Running = {} ]_vars

\* two runs were started by two clicks and one of them has its createInvoice
\* request in flight
C40_Witness ==
    /\ Cardinality(Running) >= 2
    /\ InFlight # {}

====
